---------------------------- MODULE Spec2Model ----------------------------
(***************************************************************************)
(* A model of the RTVM Tool.  Its Removal Tool (rtvm/removal-tool.py): the *)
(* background worker _process_removal, the UI-side _monitor_progress, the  *)
(* in-memory current snapshot (app.model.df), the prior workbook selected  *)
(* with browse_old_file and the persisted workbook written with openpyxl.  *)
(* Its other tools, each in a variable of its own: the Compair Tool        *)
(* (rtvm/compair-tool.py), the pattern dialog (rtvm/pattern-dialog.py),    *)
(* the Disagreement Manager (rtvm/disagreement-manager.py) and the         *)
(* configuration (rtvm/config-module.py).                                  *)
(*                                                                         *)
(* A cell text is a sequence of one-character strings; a blank cell (a     *)
(* value for which pd.isna is true) is the value NaN.                      *)
(***************************************************************************)
EXTENDS Integers, Sequences, FiniteSets, TLC

VARIABLES
  df,            \* app.model.df: the in-memory current snapshot, a sequence of rows
  dfColumns,     \* app.model.df.columns: the sequence of header names
  excel_file_path, \* app.model.excel_file_path ("" when no file is loaded)
  disk,          \* the workbook file at app.model.excel_file_path
  oldFile,       \* the workbook file at self.old_file_path
  started,       \* number of clicks that started a worker thread
  w,             \* w[r]: the locals of the r-th execution of _process_removal
  sent,          \* sent[r]: every message put on run r's progress_queue, in order
  nread,         \* nread[r]: how many of them _monitor_progress has dequeued
  mon,           \* mon[r]: the state of run r's _monitor_progress chain
  results_text,  \* the results pane
  status_var,    \* the status bar
  removal_progress, \* the progress bar: [maximum, value]
  boxes,         \* the message boxes shown so far, in order
  compairTool,   \* the Compair Tool window (rtvm/compair-tool.py)
  patternDialog, \* the pattern dialog (rtvm/pattern-dialog.py)
  disagreementManager, \* the Disagreement Manager window and its report thread
  config         \* the Config singleton, DEFAULT_CONFIG and the configuration file

vars == <<df, dfColumns, excel_file_path, disk, oldFile, started, w, sent, nread,
          mon, results_text, status_var, removal_progress, boxes,
          compairTool, patternDialog, disagreementManager, config>>

-----------------------------------------------------------------------------
(* Bounds of the model *)

\* rows of the current snapshot
MaxRows == 2
\* rows of the prior snapshot
MaxOldRows == 2
\* clicks on 'Remove Previously Submitted Requests'
MaxRuns == 2
\* the lines of a cell of the files of the summary
MaxLines == 25
\* the characters of a cell of the files of the line extraction
MaxLen == 4

-----------------------------------------------------------------------------
(* Program constants *)

\* proposed_changes_col = 6 (0-based index of column G in the data frames)
proposed_changes_col == 6
\* object_id_col = 0
object_id_col == 0
\* header_row = 1 in the worksheet
header_row == 1
\* ws.cell(row=idx+2, column=7, ...): column G, 1-based
ProposedChangesWsCol == 7
\* f"Row {idx+2}: {line}" and ws.cell(row=idx+2, ...)
RowOffset == 2
\* removed_patterns[:20], removed_comments[:20]
SummaryCap == 20

NL == "\n"
SP == " "
\* a blank cell of a data frame (pd.isna) and of a worksheet (value None)
NaN == <<"NaN">>
None == <<"None">>

\* "Contractor Proposed Change Comment Input"
comment_col_name == "Contractor Proposed Change Comment Input"

-----------------------------------------------------------------------------
(* Text: str.split('\n'), str.strip(), '\n'.join(...) *)

isna(v) == v = NaN

IsSpace(c) == c \in {SP, NL}

RECURSIVE lstrip(_)
lstrip(s) == IF s # <<>> /\ IsSpace(Head(s)) THEN lstrip(Tail(s)) ELSE s

RECURSIVE rstrip(_)
rstrip(s) ==
  IF s # <<>> /\ IsSpace(s[Len(s)]) THEN rstrip(SubSeq(s, 1, Len(s) - 1)) ELSE s

\* (mutation) only the leading whitespace is trimmed
strip_Left(s) == lstrip(s)

strip(s) == rstrip(lstrip(s))

RECURSIVE split(_, _)
split(s, sep) ==
  IF \A i \in 1..Len(s) : s[i] # sep
  THEN <<s>>
  ELSE LET k == CHOOSE i \in 1..Len(s) :
                  s[i] = sep /\ \A j \in 1..(i - 1) : s[j] # sep
       IN  <<SubSeq(s, 1, k - 1)>> \o split(SubSeq(s, k + 1, Len(s)), sep)

RECURSIVE join(_, _)
join(lines, sep) ==
  IF lines = <<>> THEN <<>>
  ELSE IF Len(lines) = 1 THEN lines[1]
  ELSE lines[1] \o <<sep>> \o join(Tail(lines), sep)

RECURSIVE StripNonEmpty(_)
StripNonEmpty(pieces) ==
  IF pieces = <<>> THEN <<>>
  ELSE (IF strip(Head(pieces)) # <<>> THEN <<strip(Head(pieces))>> ELSE <<>>)
       \o StripNonEmpty(Tail(pieces))

\* if pd.isna(s): s = ""; [line.strip() for line in str(s).split('\n') if line.strip()]
ExtractLines(cell) ==
  StripNonEmpty(split(IF isna(cell) THEN <<>> ELSE cell, NL))

Range(s) == {s[i] : i \in 1..Len(s)}

-----------------------------------------------------------------------------
(* Cells and rows.  A data-frame row is the sequence of its cells, so that  *)
(* row.iloc[c] is row[c + 1]; an object id cell is [t, v], an integer or a  *)
(* text, and every other cell is a text or NaN.                             *)

iloc(row, c) == row[c + 1]

\* str(...) / astype(str) of an object id cell: the text of the id
str(cell) == cell.v

\* df.iloc[:, object_id_col].astype(str), assigned back to the column
astype_str(rows) ==
  [i \in 1..Len(rows) |->
     [rows[i] EXCEPT ![object_id_col + 1] = [t |-> "str", v |-> str(@)]]]

\* comment_col_name in columns
HasColumn(columns, name) == \E i \in 1..Len(columns) : columns[i] = name

\* columns.get_loc(name): the 0-based position of the first column so named
get_loc(columns, name) ==
  (CHOOSE i \in 1..Len(columns) :
      columns[i] = name /\ \A j \in 1..(i - 1) : columns[j] # name) - 1

-----------------------------------------------------------------------------
(* The snapshot index old_patterns_map, a dict obj_id -> dict              *)

EmptyMap == [x \in {} |-> {}]

\* (mutation) the entry accumulates the lines of every row of the id
SetPatternsEntry_Union(m, obj_id, old_patterns_set) ==
  (obj_id :> ("patterns" :>
     (old_patterns_set \cup (IF obj_id \in DOMAIN m THEN m[obj_id]["patterns"] ELSE {}))))
  @@ m

\* old_patterns_map[obj_id] = {'patterns': old_patterns_set}
SetPatternsEntry(m, obj_id, old_patterns_set) ==
  (obj_id :> ("patterns" :> old_patterns_set)) @@ m

\* (mutation) the comments of an entry accumulate over the rows of the id
SetCommentsEntry_Union(m, obj_id, old_comments_set) ==
  LET e == IF obj_id \in DOMAIN m THEN m[obj_id] ELSE ("patterns" :> {})
      kept == IF "comments" \in DOMAIN e THEN e["comments"] ELSE {}
  IN  (obj_id :> (("comments" :> (old_comments_set \cup kept)) @@ e)) @@ m

\* if obj_id not in old_patterns_map: old_patterns_map[obj_id] = {'patterns': set()}
\* old_patterns_map[obj_id]['comments'] = old_comments_set
SetCommentsEntry(m, obj_id, old_comments_set) ==
  LET e == IF obj_id \in DOMAIN m THEN m[obj_id] ELSE ("patterns" :> {})
  IN  (obj_id :> (("comments" :> old_comments_set) @@ e)) @@ m

\* the first loop over old_df.iterrows()
RECURSIVE AddOldPatterns(_, _)
AddOldPatterns(rows, m) ==
  IF rows = <<>> THEN m
  ELSE LET row == Head(rows)
           obj_id == str(iloc(row, object_id_col))
           old_lines == ExtractLines(iloc(row, proposed_changes_col))
       IN  AddOldPatterns(Tail(rows), SetPatternsEntry(m, obj_id, Range(old_lines)))

\* the second loop over old_df.iterrows()
RECURSIVE AddOldComments(_, _, _)
AddOldComments(rows, comment_col, m) ==
  IF rows = <<>> THEN m
  ELSE LET row == Head(rows)
           obj_id == str(iloc(row, object_id_col))
           old_comment_lines == ExtractLines(iloc(row, comment_col))
       IN  AddOldComments(Tail(rows), comment_col,
                          SetCommentsEntry(m, obj_id, Range(old_comment_lines)))

BuildIndex(old_rows, comment_col) ==
  AddOldComments(old_rows, comment_col, AddOldPatterns(old_rows, EmptyMap))

-----------------------------------------------------------------------------
(* Filtering the lines of one cell against a prior line set                 *)

\* (mutation) the surviving lines are collected in reverse order
RECURSIVE FilteredLines_Reversed(_, _)
FilteredLines_Reversed(new_lines, old_set) ==
  IF new_lines = <<>> THEN <<>>
  ELSE FilteredLines_Reversed(Tail(new_lines), old_set)
       \o (IF Head(new_lines) \in old_set THEN <<>> ELSE <<Head(new_lines)>>)

\* (mutation) the loop does not test the last line, which always survives
RECURSIVE FilteredLines_KeepLast(_, _)
FilteredLines_KeepLast(new_lines, old_set) ==
  IF new_lines = <<>> THEN <<>>
  ELSE (IF Head(new_lines) \in old_set /\ Tail(new_lines) # <<>>
        THEN <<>> ELSE <<Head(new_lines)>>)
       \o FilteredLines_KeepLast(Tail(new_lines), old_set)

\* (mutation) a line that survives is kept once, however often the cell holds it
RECURSIVE FilteredLines_Once(_, _)
FilteredLines_Once(new_lines, old_set) ==
  IF new_lines = <<>> THEN <<>>
  ELSE (IF Head(new_lines) \in old_set THEN <<>> ELSE <<Head(new_lines)>>)
       \o FilteredLines_Once(Tail(new_lines), old_set \cup {Head(new_lines)})

\* the lines appended to filtered_lines, in loop order
RECURSIVE FilteredLines(_, _)
FilteredLines(new_lines, old_set) ==
  IF new_lines = <<>> THEN <<>>
  ELSE (IF Head(new_lines) \in old_set THEN <<>> ELSE <<Head(new_lines)>>)
       \o FilteredLines(Tail(new_lines), old_set)

\* (mutation) an entry names the 1-based ordinal of its row, without the
\* offset of the header row
RECURSIVE RemovedEntries_Ordinal(_, _, _)
RemovedEntries_Ordinal(new_lines, old_set, idx) ==
  IF new_lines = <<>> THEN <<>>
  ELSE (IF Head(new_lines) \in old_set
        THEN <<[row |-> idx + header_row, line |-> Head(new_lines)]>> ELSE <<>>)
       \o RemovedEntries_Ordinal(Tail(new_lines), old_set, idx)

\* the entries f"Row {idx+2}: {line}" appended to the removed list, in loop order
RECURSIVE RemovedEntries(_, _, _)
RemovedEntries(new_lines, old_set, idx) ==
  IF new_lines = <<>> THEN <<>>
  ELSE (IF Head(new_lines) \in old_set
        THEN <<[row |-> idx + RowOffset, line |-> Head(new_lines)]>> ELSE <<>>)
       \o RemovedEntries(Tail(new_lines), old_set, idx)

\* (mutation) the filtered text is not written back to the data frame
FilterField_NoRewrite(cell, applies, old_set, idx) ==
  LET new_lines == ExtractLines(cell)
      filtered_lines == FilteredLines(new_lines, old_set)
  IN  [cell    |-> cell,
       removed |-> IF applies THEN RemovedEntries(new_lines, old_set, idx) ELSE <<>>,
       changed |-> applies /\ Len(filtered_lines) # Len(new_lines)]

\* (mutation) a field of which no line survives is written as a blank cell
FilterField_BlankWhenEmpty(cell, applies, old_set, idx) ==
  LET new_lines == ExtractLines(cell)
      filtered_lines == FilteredLines(new_lines, old_set)
      differs == applies /\ Len(filtered_lines) # Len(new_lines)
  IN  [cell    |-> IF differs
                   THEN (IF filtered_lines = <<>> THEN NaN ELSE join(filtered_lines, NL))
                   ELSE cell,
       removed |-> IF applies THEN RemovedEntries(new_lines, old_set, idx) ELSE <<>>,
       changed |-> differs]

\* one field of one row: [cell, removed, changed]
\*   applies |-> the field's `if obj_id in old_patterns_map ...` guard
FilterField(cell, applies, old_set, idx) ==
  LET new_lines == ExtractLines(cell)
      filtered_lines == FilteredLines(new_lines, old_set)
      differs == applies /\ Len(filtered_lines) # Len(new_lines)
  IN  [cell    |-> IF differs THEN join(filtered_lines, NL) ELSE cell,
       removed |-> IF applies THEN RemovedEntries(new_lines, old_set, idx) ELSE <<>>,
       changed |-> differs]

-----------------------------------------------------------------------------
(* The worksheet of the persisted workbook: [header, rows]; rows[k] is the  *)
(* worksheet row k + header_row and rows[k][c] its cell in column c.        *)

WsIndex(row) == row - header_row

\* ws.cell(row=row, column=column, value=value)
SetCell(ws, row, column, value) ==
  [ws EXCEPT !.rows[WsIndex(row)][column] = value]

\* for col in range(1, ws.max_column + 1): first column whose header is name
FindHeader(ws, name) ==
  IF \E c \in 1..Len(ws.header) : ws.header[c] = name
  THEN CHOOSE c \in 1..Len(ws.header) :
         ws.header[c] = name /\ \A d \in 1..(c - 1) : ws.header[d] # name
  ELSE 0

\* if pd.isna(new_content): new_content = ""
OrEmpty(v) == IF isna(v) THEN <<>> ELSE v

\* wb.save: openpyxl serialises a cell holding "" as an empty cell
SavedCell(v) == IF v = <<>> THEN None ELSE v

SavedSheet(ws) ==
  [ws EXCEPT !.rows =
     [k \in 1..Len(ws.rows) |->
        [c \in 1..Len(ws.rows[k]) |->
           IF c = object_id_col + 1 THEN ws.rows[k][c] ELSE SavedCell(ws.rows[k][c])]]]

\* the worksheet a data frame was read from: a blank cell reads as NaN
SheetOf(columns, rows) ==
  [header |-> columns,
   rows   |-> [k \in 1..Len(rows) |->
                 [c \in 1..Len(rows[k]) |->
                    IF c # object_id_col + 1 /\ isna(rows[k][c]) THEN None
                    ELSE rows[k][c]]]]

-----------------------------------------------------------------------------
(* The files the model is run on                                            *)

A == <<"A">>
B == <<"B">>
C == <<"C">>
X == <<"x">>

Id(v) == [t |-> "str", v |-> v]
IntId(v) == [t |-> "int", v |-> v]

Columns8 ==
  <<"Object ID", "c1", "c2", "c3", "c4", "c5", "Proposed Changes", comment_col_name>>
\* the comment header spelled differently
ColumnsNoComment ==
  <<"Object ID", "c1", "c2", "c3", "c4", "c5", "Proposed Changes", "Comment">>
\* fewer than seven columns, the comment column among them
Columns5 == <<"Object ID", "c1", "c2", comment_col_name, "c4">>

MkRow(id, pattern, comment) == <<id, X, X, X, X, X, pattern, comment>>

SeqsUpTo(S, n) == UNION {[1..k -> S] : k \in 0..n}

CurrentRowChoices ==
  { MkRow(Id("WCC-1"), join(<<A, B, C>>, NL), join(<<B, A>>, NL)),
    MkRow(Id("WCC-1"), NaN, A),
    MkRow(IntId("7"), <<SP, "B", SP, NL, NL, "A">>, NaN),
    MkRow(IntId("7"), join(<<A, A, B>>, NL), <<"A", SP, "B">>) }

OldRowChoices ==
  { MkRow(Id("WCC-1"), B, A),
    MkRow(Id("WCC-1"), join(<<A, C>>, NL), NaN),
    MkRow(Id("7"), <<SP, "A", SP>>, <<"A", SP, "B", NL>>) }

CurrentFiles ==
  {[columns |-> Columns8, rows |-> rs] : rs \in SeqsUpTo(CurrentRowChoices, MaxRows)}
  \cup {[columns |-> ColumnsNoComment, rows |-> <<MkRow(Id("WCC-1"), A, A)>>],
        [columns |-> Columns5, rows |-> <<<<Id("WCC-1"), X, X, A, X>>>>]}

NoFile == [readable |-> FALSE, ncols |-> 0, rows |-> <<>>, name |-> ""]

OldFiles ==
  {[readable |-> TRUE, ncols |-> Len(Columns8), rows |-> rs, name |-> "old.xlsx"] :
      rs \in SeqsUpTo(OldRowChoices, MaxOldRows)}
  \cup {[readable |-> TRUE, ncols |-> Len(Columns8) - 1,
         rows |-> <<<<Id("WCC-1"), X, X, X, X, X, A>>>>, name |-> "old.xlsx"],
        [readable |-> TRUE, ncols |-> Len(Columns5),
         rows |-> <<<<Id("WCC-1"), X, X, A, X>>>>, name |-> "old.xlsx"],
        [readable |-> FALSE, ncols |-> 0, rows |-> <<>>, name |-> "old.xlsx"]}

\* the files of the specifications of the write-back and of concurrent runs
SmallCurrentFiles ==
  {[columns |-> Columns8,
    rows |-> <<MkRow(Id("WCC-1"), join(<<A, B>>, NL), A), MkRow(Id("WCC-2"), A, NaN)>>]}

OldFileOf(rs) ==
  [readable |-> TRUE, ncols |-> Len(Columns8), rows |-> rs, name |-> "old.xlsx"]

WriteOldFiles ==
  {OldFileOf(<<MkRow(Id("WCC-1"), A, A)>>), OldFileOf(<<MkRow(Id("WCC-2"), A, NaN)>>)}

ConcurrentOldFiles == {OldFileOf(<<MkRow(Id("WCC-1"), A, A)>>)}

\* the files of the specification of the runs under the scheduler
FairCurrentFiles ==
  SmallCurrentFiles
  \cup {[columns |-> ColumnsNoComment, rows |-> <<MkRow(Id("WCC-1"), A, A)>>]}

FairOldFiles ==
  {OldFileOf(<<MkRow(Id("WCC-1"), A, A)>>),
   [readable |-> FALSE, ncols |-> 0, rows |-> <<>>, name |-> "old.xlsx"]}

\* the files of the specification of the summary: cells of up to MaxLines
\* different lines, all of them in the old file
Alphabet ==
  <<"a", "b", "c", "d", "e", "f", "g", "h", "i", "j", "k", "l", "m",
    "n", "o", "p", "q", "r", "s", "t", "u", "v", "w", "x", "y", "z">>

LongCell(n) == join([i \in 1..n |-> <<Alphabet[i]>>], NL)

SummaryCurrentFiles ==
  {[columns |-> Columns8, rows |-> <<MkRow(Id("WCC-1"), LongCell(n), LongCell(m))>> \o more] :
      n \in 0..MaxLines, m \in {0, 2, MaxLines},
      more \in {<<>>, <<MkRow(Id("WCC-1"), LongCell(2), NaN)>>}}

\* the old files of the specification of the rows: one or two object ids in
\* the index, with one or two pattern lines
RowOldFiles ==
  {OldFileOf(<<MkRow(Id("WCC-1"), B, A)>>),
   OldFileOf(<<MkRow(Id("WCC-1"), join(<<A, C>>, NL), NaN)>>),
   OldFileOf(<<MkRow(Id("7"), <<SP, "A", SP>>, <<"A", SP, "B", NL>>)>>),
   OldFileOf(<<MkRow(Id("WCC-1"), B, A),
               MkRow(Id("7"), <<SP, "A", SP>>, <<"A", SP, "B", NL>>)>>),
   OldFileOf(<<MkRow(Id("7"), A, NaN),
               MkRow(Id("WCC-1"), join(<<A, C>>, NL), join(<<A, B>>, NL))>>),
   OldFileOf(<<MkRow(Id("7"), B, NaN)>>)}

\* the loaded workbook itself selected as the old file (what the file holds is
\* read from the disk when a run reads it)
SameFileSelected ==
  {[readable |-> TRUE, ncols |-> 0, rows |-> <<>>, name |-> "current.xlsx"]}

\* the files of the specification of the line extraction: one row, whose
\* pattern cell is any text of up to MaxLen characters or blank, against a
\* fixed old cell, and a fixed row against any such old cell
LineChars == {"A", "B", SP, NL}

LineCells == SeqsUpTo(LineChars, MaxLen) \cup {NaN}

FixedOldCell == A

FixedCurrentCell == <<"A", SP, NL, NL, "B">>

LineCurrentFiles ==
  {[columns |-> Columns8, rows |-> <<MkRow(Id("WCC-1"), cell, NaN)>>] :
      cell \in LineCells \cup {FixedCurrentCell}}

LineOldFiles == {OldFileOf(<<MkRow(Id("WCC-1"), cell, NaN)>>) : cell \in LineCells}

SummaryOldFiles ==
  {OldFileOf(<<MkRow(Id("WCC-1"), LongCell(MaxLines), LongCell(MaxLines))>>)}

-----------------------------------------------------------------------------
(* The configuration (rtvm/config-module.py).  A dict is a function from    *)
(* its keys; the dicts of the sections are objects of a heap, named by      *)
(* their position in it, so that two dicts of sections may hold the same    *)
(* object.  The configuration file holds a value: section -> key -> value.  *)

\* DEFAULT_CONFIG as the module writes it (here: two of its sections, one
\* key each)
DEFAULT_CONFIG ==
  [ui |-> [theme |-> "default"], paths |-> [disagreement_reports_folder |-> ""]]

\* {}
EmptyDict == [k \in {} |-> ""]

NoConfigFile == [exists |-> FALSE, content |-> EmptyDict]

ConfigFile(content) == [exists |-> TRUE, content |-> content]

\* the value json.dump writes: every section with the value of its object
Dump(top, heap) == [s \in DOMAIN top |-> heap[top[s]]]

\* Config.save: the file is written, or the error is logged and the file is
\* left as it was
save(c, written) ==
  IF written THEN [c EXCEPT !.file = ConfigFile(Dump(c.settings, c.heap))] ELSE c

\* target[key] = value, for every key of a section of the source (no value
\* of a section is a dict, so the recursion ends here)
update_section(section, source) ==
  [k \in DOMAIN section \cup DOMAIN source |->
     IF k \in DOMAIN source THEN source[k] ELSE section[k]]

\* Config._deep_update(self.settings, source), for the keys todo of source
RECURSIVE deep_update(_, _, _)
deep_update(c, source, todo) ==
  IF todo = {} THEN c
  ELSE LET key == CHOOSE s \in todo : TRUE
           next ==
             IF key \in DOMAIN c.settings
             THEN \* both are dicts: the object of the section is updated in place
                  [c EXCEPT !.heap[c.settings[key]] = update_section(@, source[key])]
             ELSE \* target[key] = value: the dict json.load built
                  [c EXCEPT !.heap = Append(@, source[key]),
                            !.settings = (key :> (Len(c.heap) + 1)) @@ @]
       IN  deep_update(next, source, todo \ {key})

\* Config.load
load(c, written) ==
  IF c.file.exists THEN deep_update(c, c.file.content, DOMAIN c.file.content)
  ELSE save(c, written)

\* Config.set
set(c, section, key, value, written) ==
  LET c1 == IF section \notin DOMAIN c.settings
            THEN [c EXCEPT !.heap = Append(@, EmptyDict),
                           !.settings = (section :> (Len(c.heap) + 1)) @@ @]
            ELSE c
      c2 == [c1 EXCEPT !.heap[c1.settings[section]] = (key :> value) @@ @,
                       !.last_set = (<<section, key>> :> value) @@ @]
  IN  save(c2, written)

\* Config.get
get(c, section, key, default) ==
  IF section \in DOMAIN c.settings /\ key \in DOMAIN c.heap[c.settings[section]]
  THEN c.heap[c.settings[section]][key]
  ELSE default

\* the module at import: DEFAULT_CONFIG is built, then config = Config():
\* self.settings = dict(DEFAULT_CONFIG), a new dict of the same section
\* objects, then self.load()
Config(file, written) ==
  load([defaults |-> [ui |-> 1, paths |-> 2],
        settings |-> [ui |-> 1, paths |-> 2],
        heap     |-> <<DEFAULT_CONFIG.ui, DEFAULT_CONFIG.paths>>,
        file     |-> file,
        \* history: the value set last for a section and key
        last_set |-> EmptyDict],
       written)

\* the value DEFAULT_CONFIG holds now
DefaultsNow(c) == Dump(c.defaults, c.heap)

\* the configuration of a first start: no file, the defaults are saved
NewConfig == Config(NoConfigFile, TRUE)

\* the files a start may find
ConfigFiles ==
  {NoConfigFile,
   ConfigFile(DEFAULT_CONFIG),
   ConfigFile([last_entries |-> [cdrl_name |-> "CDRL"]])}

\* the sections, keys and values config.set is called with
ConfigSections == {"ui", "last_entries"}
ConfigKeys == {"theme", "cdrl_name"}
ConfigValues == {"dark", "light"}

ConfigOnly ==
  UNCHANGED <<df, dfColumns, excel_file_path, disk, oldFile, started, w, sent, nread,
              mon, results_text, status_var, removal_progress, boxes,
              compairTool, patternDialog, disagreementManager>>

\* config.set(section, key, value)
config_set ==
  /\ \E section \in ConfigSections, key \in ConfigKeys, value \in ConfigValues,
        written \in BOOLEAN :
       config' = set(config, section, key, value, written)
  /\ ConfigOnly

\* config.load()
config_load ==
  /\ \E written \in BOOLEAN : config' = load(config, written)
  /\ ConfigOnly

-----------------------------------------------------------------------------
(* The Compair Tool (rtvm/compair-tool.py).  A workbook holds one sheet, a  *)
(* data frame [columns, rows]; a row is the sequence of its cells, a cell   *)
(* is a text Id(..), an integer IntId(..) or the float NaNCell.             *)

\* the rows of a sheet of the comparison
MaxSheetRows == 2

\* the name of the sheet of every workbook of the comparison
SheetName == "Sheet1"

\* the header names of the sheets, in the order sorting a column index yields
ColumnNames == <<"A", "B">>

\* a blank cell of a sheet, as pd.read_excel yields it
NaNCell == [t |-> "float", v |-> "nan"]

\* pd.isna(val)
pd_isna(val) == val = NaNCell

\* the entries before a file is selected
NoWorkbook == [path |-> "", columns |-> <<>>, rows |-> <<>>]

Workbook(columns, rows) == [path |-> "book.xlsx", columns |-> columns, rows |-> rows]

CompareRowChoices(n) ==
  IF n = 1 THEN {<<Id("7")>>, <<IntId("7")>>, <<NaNCell>>}
  ELSE {<<Id("7"), NaNCell>>, <<IntId("7"), Id("x")>>}

Workbooks ==
  {Workbook(cs, rs) :
     cs \in {<<"A">>}, rs \in SeqsUpTo(CompareRowChoices(1), MaxSheetRows)}
  \cup {Workbook(cs, rs) :
          cs \in {<<"A", "B">>, <<"B", "A">>},
          rs \in SeqsUpTo(CompareRowChoices(2), MaxSheetRows)}

\* what a user types into the sheet entry
SheetEntries == {"", SheetName, "Sheet2"}

\* create_window: empty entries, an empty results table, the status 'Ready'
NewCompairTool ==
  [file1_entry   |-> NoWorkbook,
   file2_entry   |-> NoWorkbook,
   sheet_entry   |-> "",
   results_table |-> <<>>,
   status_var    |-> <<"Ready">>,
   box           |-> <<>>]     \* the message box shown last

\* pd.read_excel(path, sheet_name=sheet_name): with sheet_name None (here "",
\* the empty entry) a dict of all the sheets, with the name of a sheet its
\* data frame, otherwise an error
read_excel(book, sheet_name) ==
  IF sheet_name = "" THEN [kind |-> "dict", columns |-> <<>>, rows |-> <<>>]
  ELSE IF sheet_name = SheetName
       THEN [kind |-> "frame", columns |-> book.columns, rows |-> book.rows]
       ELSE [kind |-> "error", columns |-> <<>>, rows |-> <<>>]

\* the sorted union of two column indexes
SortedUnion(c1, c2) ==
  SelectSeq(ColumnNames, LAMBDA c : HasColumn(c1, c) \/ HasColumn(c2, c))

\* one side of df1.align(df2, join='outer', axis=1): the frame on the joined
\* columns, a column it lacks holding NaN; the rows are not aligned
reindex(frame, columns) ==
  [kind    |-> "frame",
   columns |-> columns,
   rows    |-> [i \in 1..Len(frame.rows) |->
                  [k \in 1..Len(columns) |->
                     IF HasColumn(frame.columns, columns[k])
                     THEN frame.rows[i][get_loc(frame.columns, columns[k]) + 1]
                     ELSE NaNCell]]]

align_columns(df1, df2) ==
  IF df1.columns = df2.columns THEN df1.columns
  ELSE SortedUnion(df1.columns, df2.columns)

\* df.fillna('', inplace=True)
fillna(frame) ==
  [frame EXCEPT !.rows =
     [i \in 1..Len(frame.rows) |->
        [k \in 1..Len(frame.rows[i]) |->
           IF pd_isna(frame.rows[i][k]) THEN Id("") ELSE frame.rows[i][k]]]]

Max(a, b) == IF a >= b THEN a ELSE b

\* the body of the two loops for the row position i and the k-th column
Difference(a1, a2, i, k) ==
  IF i >= Len(a1.rows) \/ i >= Len(a2.rows) THEN <<>>
  ELSE LET val1_str == str(a1.rows[i + 1][k])
           val2_str == str(a2.rows[i + 1][k])
       IN  IF val1_str # val2_str
           THEN <<[Row |-> i + 2, Column |-> a1.columns[k],
                   Value_in_File_1 |-> val1_str, Value_in_File_2 |-> val2_str]>>
           ELSE <<>>

\* for i in range(max(len(df1), len(df2))): for col in df1.columns: ...
\* from the p-th pair (i, col) on
RECURSIVE DifferencesFrom(_, _, _)
DifferencesFrom(a1, a2, p) ==
  LET m == Len(a1.columns)
      n == Max(Len(a1.rows), Len(a2.rows))
  IN  IF p >= n * m THEN <<>>
      ELSE Difference(a1, a2, p \div m, (p % m) + 1) \o DifferencesFrom(a1, a2, p + 1)

get_differences(df1, df2) ==
  LET columns == align_columns(df1, df2)
      a1 == fillna(reindex(df1, columns))
      a2 == fillna(reindex(df2, columns))
  IN  DifferencesFrom(a1, a2, 0)

CompareError == <<"Error", "Failed to compare Excel files">>

\* the other tools and the Removal Tool are left alone
CompairOnly ==
  UNCHANGED <<df, dfColumns, excel_file_path, disk, oldFile, started, w, sent, nread,
              mon, results_text, status_var, removal_progress, boxes,
              patternDialog, disagreementManager, config>>

\* filedialog.askopenfilename returns a path (or "" when cancelled: no change)
browse_file1 ==
  /\ \E book \in Workbooks : compairTool' = [compairTool EXCEPT !.file1_entry = book]
  /\ CompairOnly

browse_file2 ==
  /\ \E book \in Workbooks : compairTool' = [compairTool EXCEPT !.file2_entry = book]
  /\ CompairOnly

\* the user types into the sheet entry
type_sheet_entry ==
  /\ \E name \in SheetEntries : compairTool' = [compairTool EXCEPT !.sheet_entry = name]
  /\ CompairOnly

compare_files ==
  /\ LET file1 == compairTool.file1_entry
         file2 == compairTool.file2_entry
         sheet_name == compairTool.sheet_entry
         df1 == read_excel(file1, sheet_name)
         df2 == read_excel(file2, sheet_name)
     IN  IF file1.path = "" \/ file2.path = ""
         THEN compairTool' =
                [compairTool EXCEPT
                   !.box = <<"Error", "Please select both Excel files to compare.">>]
         ELSE IF df1.kind = "error" \/ df2.kind = "error"
         THEN \* pd.read_excel raises: the results table is not yet cleared
              compairTool' =
                [compairTool EXCEPT !.status_var = <<"Error comparing files">>,
                                    !.box = CompareError]
         ELSE IF df1.kind = "dict"
         THEN \* a dict has no align: get_differences raises after the clearing
              compairTool' =
                [compairTool EXCEPT !.results_table = <<>>,
                                    !.status_var = <<"Error comparing files">>,
                                    !.box = CompareError]
         ELSE LET diff_df == get_differences(df1, df2) IN
              IF diff_df = <<>>
              THEN compairTool' =
                     [compairTool EXCEPT
                        !.results_table = <<>>,
                        !.status_var = <<"No differences found">>,
                        !.box = <<"No Differences", "The two files are identical.">>]
              ELSE compairTool' =
                     [compairTool EXCEPT
                        !.results_table = diff_df,
                        !.status_var = <<"Found", Len(diff_df), "differences">>]
  /\ CompairOnly

-----------------------------------------------------------------------------
(* The pattern dialog (rtvm/pattern-dialog.py, rtvm/pattern-generator.py).  *)
(* The text of an entry, a pattern and the output are sequences of          *)
(* one-character strings.                                                   *)

\* the patterns the dialog holds
MaxPatterns == 3

\* str.upper(), on the letters the entries are typed with
upper_char(c) ==
  CASE c = "c" -> "C" [] c = "d" -> "D" [] c = "e" -> "E" [] c = "f" -> "F"
    [] c = "i" -> "I" [] c = "l" -> "L" [] c = "o" -> "O" [] c = "p" -> "P"
    [] c = "s" -> "S" [] c = "w" -> "W" [] c = "x" -> "X"
    [] OTHER -> c

upper(s) == [i \in 1..Len(s) |-> upper_char(s[i])]

\* str.replace(old, new)
RECURSIVE replace(_, _, _)
replace(s, old, new) ==
  IF Len(s) < Len(old) THEN s
  ELSE IF SubSeq(s, 1, Len(old)) = old
       THEN new \o replace(SubSeq(s, Len(old) + 1, Len(s)), old, new)
       ELSE <<Head(s)>> \o replace(Tail(s), old, new)

WLIC160 == <<"1", "6", "0", "-", "W", "L", "I", "C">>
WLR180 == <<"1", "8", "0", "-", "W", "L", "R">>

\* f"{cdrl_name}, {page_sheet_type} {page_sheet}, {plan_view_type} {plan_view}"
DetailedLocation(cdrl_name, page_sheet_type, page_sheet, plan_view_type, plan_view) ==
  cdrl_name \o <<",", SP>> \o page_sheet_type \o <<SP>> \o page_sheet
    \o <<",", SP>> \o plan_view_type \o <<SP>> \o plan_view

\* PatternGenerator.generate_standard_pattern
generate_standard_pattern(obj_identifier, cdrl_name, page_sheet_type, page_sheet, plan_view_type, plan_view, status) ==
  upper(obj_identifier) \o <<";">>
    \o DetailedLocation(upper(cdrl_name), page_sheet_type, page_sheet,
                        plan_view_type, plan_view)
    \o <<";">> \o upper(status)

\* PatternGenerator.generate_vessel_specific_pattern
generate_vessel_specific_pattern(vessel_type, di_number, cdrl_name, page_sheet_type, page_sheet, plan_view_type, plan_view, status) ==
  LET detailed_location ==
        DetailedLocation(upper(cdrl_name), page_sheet_type, page_sheet,
                         plan_view_type, plan_view)
  IN  <<"A", "D", "D", ";">> \o upper(di_number) \o <<";">>
        \o (IF upper(vessel_type) = WLR180
            THEN replace(detailed_location, WLIC160, WLR180)
            ELSE detailed_location)
        \o <<";">> \o upper(status)

\* PatternGenerator.validate_pattern_inputs: the error messages, none when
\* the inputs are valid
validate_pattern_inputs(obj_identifier, cdrl_name, page_sheet, plan_view, status) ==
  (IF obj_identifier = <<>> THEN <<"Object Identifier is required.">> ELSE <<>>)
  \o (IF cdrl_name = <<>> THEN <<"CDRL File Name is required.">> ELSE <<>>)
  \o (IF page_sheet = <<>> THEN <<"Page/Sheet input is required.">> ELSE <<>>)
  \o (IF plan_view = <<>> THEN <<"Plan View/Section input is required.">> ELSE <<>>)
  \o (IF status = <<>> THEN <<"Contractor Assessed Status is required.">> ELSE <<>>)

\* the defaults of the two comboboxes of the detailed location
PageType == <<"P", "a", "g", "e">>
PlanViewType == <<"P", "l", "a", "n", SP, "V", "i", "e", "w">>

\* what the dialog is opened with and what the user types or selects
ObjIdentifiers == {<<>>, <<"w">>}
DINumber == <<"d", "i">>
\* (CDRL file name, page/sheet, plan view/section, status): every field
\* filled, the status left out, a CDRL file name of one blank
Fillings ==
  {<<<<"1", "6", "0", "-", "w", "l", "i", "c">>, <<"1">>, <<"2">>, <<"S", "A", "T">>>>,
   <<<<"c">>, <<"1">>, <<"2">>, <<>>>>,
   <<<<SP>>, <<"1">>, <<"2">>, <<"S", "A", "T">>>>}

\* PatternDialog.__init__: the entries as _create_widgets fills them, then
\* _load_config_values; the dialog has no attribute pattern1 yet
NewPatternDialog(obj_identifier, c) ==
  LET saved_cdrl == get(c, "last_entries", "cdrl_name", <<>>)
      saved_status == get(c, "last_entries", "contractor_status", <<>>)
  IN  [obj_identifier_entry |-> obj_identifier,
       di_number_entry      |-> DINumber,
       cdrl_name_entry      |-> saved_cdrl,
       page_sheet_entry     |-> <<>>,
       plan_view_entry      |-> <<>>,
       status_var           |-> saved_status,
       has_pattern1         |-> FALSE,    \* hasattr(self, 'pattern1')
       pattern1             |-> <<>>,
       pattern2             |-> <<>>,
       patterns             |-> <<>>,
       output_text          |-> <<>>,
       box                  |-> <<>>]     \* the message box shown last

DialogOnly ==
  UNCHANGED <<df, dfColumns, excel_file_path, disk, oldFile, started, w, sent, nread,
              mon, results_text, status_var, removal_progress, boxes,
              compairTool, disagreementManager>>

\* the user fills in the entries and selects a status
type_entries ==
  /\ \E f \in Fillings :
       patternDialog' = [patternDialog EXCEPT !.cdrl_name_entry = f[1],
                                             !.page_sheet_entry = f[2],
                                             !.plan_view_entry = f[3],
                                             !.status_var = f[4]]
  /\ UNCHANGED config
  /\ DialogOnly

\* PatternDialog._save_config_values
save_config_values(c, d, written1, written2) ==
  LET cdrl_name == strip(d.cdrl_name_entry)
      c1 == IF cdrl_name # <<>>
            THEN set(c, "last_entries", "cdrl_name", cdrl_name, written1)
            ELSE c
  IN  IF d.status_var # <<>>
      THEN set(c1, "last_entries", "contractor_status", d.status_var, written2)
      ELSE c1

generate_pattern ==
  /\ LET d == patternDialog
         error_messages ==
           validate_pattern_inputs(d.obj_identifier_entry, d.cdrl_name_entry,
                                   d.page_sheet_entry, d.plan_view_entry, d.status_var)
         pattern ==
           generate_standard_pattern(d.obj_identifier_entry, d.cdrl_name_entry,
                                     PageType, d.page_sheet_entry,
                                     PlanViewType, d.plan_view_entry, d.status_var)
     IN  IF error_messages # <<>>
         THEN \* the output and the list are cleared before the validation
              /\ patternDialog' = [d EXCEPT !.output_text = <<>>,
                                            !.patterns = <<>>,
                                            !.box = <<"Input Error">> \o error_messages]
              /\ UNCHANGED config
         ELSE /\ patternDialog' = [d EXCEPT !.has_pattern1 = TRUE,
                                            !.pattern1 = pattern,
                                            !.patterns = <<pattern>>,
                                            !.output_text = join(<<pattern>>, NL)]
              /\ \E written1, written2 \in BOOLEAN :
                   config' = save_config_values(config, d, written1, written2)
  /\ DialogOnly

create_180_version ==
  /\ Len(patternDialog.patterns) < MaxPatterns
  /\ LET d == patternDialog
         pattern ==
           generate_vessel_specific_pattern(WLR180, d.di_number_entry,
                                            d.cdrl_name_entry,
                                            PageType, d.page_sheet_entry,
                                            PlanViewType, d.plan_view_entry,
                                            d.status_var)
     IN  IF ~d.has_pattern1
         THEN patternDialog' =
                [d EXCEPT !.box = <<"Error", "Please generate the initial pattern first.">>]
         ELSE patternDialog' =
                [d EXCEPT !.pattern2 = pattern,
                          !.patterns = Append(@, pattern),
                          !.output_text = @ \o <<NL>> \o pattern]
  /\ UNCHANGED config
  /\ DialogOnly

reset_fields ==
  /\ patternDialog' = [patternDialog EXCEPT !.cdrl_name_entry = <<>>,
                                            !.page_sheet_entry = <<>>,
                                            !.plan_view_entry = <<>>,
                                            !.status_var = <<>>,
                                            !.output_text = <<>>,
                                            !.patterns = <<>>]
  /\ UNCHANGED config
  /\ DialogOnly

-----------------------------------------------------------------------------
(* The Disagreement Manager (rtvm/disagreement-manager.py).  A status item  *)
(* is a dict of texts; the lists of the manager hold the items themselves,  *)
(* here the positions of the items in app.model.status_data.                *)

\* the items of app.model.status_data
MaxStatusRows == 3
\* clicks on 'Create Disagreement Reports' that start a thread
MaxReportRuns == 1

\* str.lower(), on the letters the status items are written with
lower_char(c) ==
  CASE c = "A" -> "a" [] c = "D" -> "d" [] c = "R" -> "r" [] c = "V" -> "v"
    [] OTHER -> c

lower(s) == [i \in 1..Len(s) |-> lower_char(s[i])]

StatusItem(government_status, object_status, veridoc_number) ==
  [government_status |-> government_status,
   object_status     |-> object_status,
   veridoc_number    |-> veridoc_number]

StatusChoices ==
  {StatusItem(<<SP, "D", "i", "s", "a", "g", "r", "e", "e", SP>>,
              <<"A", "c", "c", "e", "p", "t", "e", "d">>, <<"V", "1", SP>>),
   StatusItem(<<"d", "i", "s", "a", "g", "r", "e", "e">>,
              <<"a", "c", "c", "e", "p", "t", "e", "d", SP>>, <<"v", "1">>),
   StatusItem(<<"D", "i", "s", "a", "g", "r", "e", "e">>,
              <<"A", "c", "c", "e", "p", "t", "e", "d">>, <<"v", "2">>),
   StatusItem(<<"D", "i", "s", "a", "g", "r", "e", "e">>,
              <<"A", "c", "c", "e", "p", "t", "e", "d">>, <<SP>>),
   StatusItem(<<"A", "g", "r", "e", "e">>,
              <<"A", "c", "c", "e", "p", "t", "e", "d">>, <<"v", "1">>),
   StatusItem(<<"D", "i", "s", "a", "g", "r", "e", "e">>,
              <<"R", "e", "j", "e", "c", "t", "e", "d">>, <<"v", "2">>)}

\* what simpledialog.askstring and filedialog.askdirectory return
FormatChoices ==
  {<<>>, <<"p", "d", "f">>, <<"E", "x", "c", "e", "l">>, <<"d", "o", "c">>}
Directories == {"", "/reports"}

PDF == <<"P", "D", "F">>
EXCEL == <<"E", "X", "C", "E", "L">>

\* what generate_pdf_for_disagreement and generate_excel_for_disagreement
\* return: a (path, swbs_group) tuple, or None
ReportResults == {"created", "None"}

\* the manager before its window is created
ClosedDisagreementManager(status_data) ==
  [window             |-> "closed",
   status_data        |-> status_data,     \* app.model.status_data
   disagreement_items |-> <<>>,
   db_location_var    |-> "",
   status_var         |-> <<"Ready">>,
   box                |-> <<>>,            \* the message box shown last
   threads            |-> <<>>]            \* the executions of _create_reports_thread

\* (mutation) the object status of an item is not looked at
find_disagreements_AnyObjectStatus(loaded, status_data, disagreement_items) ==
  IF ~loaded THEN disagreement_items
  ELSE LET Selected(j) ==
             lower(strip(status_data[j].government_status))
               = <<"d", "i", "s", "a", "g", "r", "e", "e">>
           RECURSIVE From(_)
           From(j) == IF j > Len(status_data) THEN <<>>
                      ELSE (IF Selected(j) THEN <<j>> ELSE <<>>) \o From(j + 1)
       IN  From(1)

\* find_disagreements: the list it leaves in self.disagreement_items
find_disagreements(loaded, status_data, disagreement_items) ==
  IF ~loaded THEN disagreement_items
  ELSE LET Selected(j) ==
             /\ lower(strip(status_data[j].government_status))
                  = <<"d", "i", "s", "a", "g", "r", "e", "e">>
             /\ lower(strip(status_data[j].object_status))
                  = <<"a", "c", "c", "e", "p", "t", "e", "d">>
           RECURSIVE From(_)
           From(j) == IF j > Len(status_data) THEN <<>>
                      ELSE (IF Selected(j) THEN <<j>> ELSE <<>>) \o From(j + 1)
       IN  From(1)

\* grouped_items.setdefault(veridoc, []).append(item)
setdefault_append(grouped_items, veridoc, item) ==
  IF \E g \in 1..Len(grouped_items) : grouped_items[g].veridoc = veridoc
  THEN [g \in 1..Len(grouped_items) |->
          IF grouped_items[g].veridoc = veridoc
          THEN [grouped_items[g] EXCEPT !.items = Append(@, item)]
          ELSE grouped_items[g]]
  ELSE Append(grouped_items, [veridoc |-> veridoc, items |-> <<item>>])

\* the grouping loop of create_disagreement_reports: a dict keeps its keys in
\* the order of their insertion
RECURSIVE GroupItems(_, _, _)
GroupItems(status_data, disagreement_items, grouped_items) ==
  IF disagreement_items = <<>> THEN grouped_items
  ELSE LET item == Head(disagreement_items)
           veridoc == lower(strip(status_data[item].veridoc_number))
       IN  GroupItems(status_data, Tail(disagreement_items),
                      IF veridoc # <<>>
                      THEN setdefault_append(grouped_items, veridoc, item)
                      ELSE grouped_items)

ManagerOnly ==
  UNCHANGED <<df, dfColumns, excel_file_path, disk, oldFile, started, w, sent, nread,
              mon, results_text, status_var, removal_progress, boxes,
              compairTool, patternDialog>>

\* DisagreementManager.__init__, create_window: the window is created and
\* find_disagreements runs
create_window ==
  /\ disagreementManager.window = "closed"
  /\ disagreementManager' =
       [disagreementManager EXCEPT
          !.window = "open",
          !.db_location_var =
             get(config, "paths", "disagreement_reports_folder", ""),
          !.disagreement_items =
             find_disagreements(excel_file_path # "", disagreementManager.status_data, @)]
  /\ UNCHANGED config
  /\ ManagerOnly

\* a click on 'Create Disagreement Reports'
create_disagreement_reports ==
  /\ disagreementManager.window = "open"
  /\ Len(disagreementManager.threads) < MaxReportRuns
  /\ LET m == disagreementManager
         saved == get(config, "paths", "disagreement_reports_folder", "")
         grouped_items == GroupItems(m.status_data, m.disagreement_items, <<>>)
     IN  IF m.disagreement_items = <<>>
         THEN /\ disagreementManager' =
                   [m EXCEPT !.box = <<"No Disagreements",
                                       "No disagreements found to report.">>]
              /\ UNCHANGED config
         ELSE \E directory \in Directories, choice \in FormatChoices,
                 written \in BOOLEAN :
              LET db_location == IF saved = "" THEN directory ELSE saved
                  m1 == IF saved = "" THEN [m EXCEPT !.db_location_var = directory]
                        ELSE m
                  format_choice == upper(choice)
              IN  IF db_location = ""
                  THEN \* no directory is selected
                       UNCHANGED <<disagreementManager, config>>
                  ELSE /\ config' =
                            IF saved = ""
                            THEN set(config, "paths", "disagreement_reports_folder",
                                     directory, written)
                            ELSE config
                       /\ IF choice = <<>> THEN disagreementManager' = m1
                          ELSE IF format_choice \notin {PDF, EXCEL}
                          THEN disagreementManager' =
                                 [m1 EXCEPT !.box =
                                    <<"Invalid Format",
                                      "Please choose either 'PDF' or 'Excel'.">>]
                          ELSE disagreementManager' =
                                 [m1 EXCEPT
                                    !.status_var = <<"Creating", format_choice, "reports...">>,
                                    !.threads = Append(@,
                                       [grouped_items |-> grouped_items,
                                        db_location   |-> db_location,
                                        format_choice |-> format_choice,
                                        processed     |-> 0,
                                        created_reports |-> <<>>,
                                        \* history: the groups skipped and the
                                        \* reports attempted, in order
                                        events        |-> <<>>,
                                        pc            |-> "loop"])]
  /\ ManagerOnly

\* one iteration of the loop of _create_reports_thread
create_reports_thread_group(t) ==
  /\ t \in 1..Len(disagreementManager.threads)
  /\ LET th == disagreementManager.threads[t]
         m == disagreementManager
     IN  /\ th.pc = "loop"
         /\ th.processed < Len(th.grouped_items)
         /\ LET group == th.grouped_items[th.processed + 1]
                items == group.items
                rep_item == items[1]
            IN  IF \E k \in 1..Len(items) :
                     lower(strip(m.status_data[items[k]].government_status))
                       = <<"a", "g", "r", "e", "e">>
                THEN disagreementManager' =
                       [m EXCEPT !.threads[t].processed = @ + 1,
                                 !.threads[t].events =
                                    Append(@, [type |-> "skip", veridoc |-> group.veridoc,
                                               item |-> 0, result |-> "None"])]
                ELSE \E result \in ReportResults :
                       disagreementManager' =
                         [m EXCEPT
                            !.threads[t].processed = @ + 1,
                            !.threads[t].events =
                               Append(@, [type |-> "attempt", veridoc |-> group.veridoc,
                                          item |-> rep_item, result |-> result]),
                            !.threads[t].created_reports =
                               IF result # "None" THEN Append(@, group.veridoc) ELSE @]
  /\ UNCHANGED config
  /\ ManagerOnly

\* the summary of _create_reports_thread, after the loop
create_reports_thread_summary(t) ==
  /\ t \in 1..Len(disagreementManager.threads)
  /\ LET th == disagreementManager.threads[t]
     IN  /\ th.pc = "loop"
         /\ th.processed = Len(th.grouped_items)
         /\ disagreementManager' =
              [disagreementManager EXCEPT
                 !.threads[t].pc = "done",
                 !.status_var = <<"Report creation completed">>,
                 !.box = IF th.created_reports # <<>>
                         THEN <<"Reports Created", Len(th.created_reports)>>
                         ELSE <<"No Reports Created",
                                "No disagreement reports were created.">>]
  /\ UNCHANGED config
  /\ ManagerOnly

create_reports_thread(t) ==
  \/ create_reports_thread_group(t)
  \/ create_reports_thread_summary(t)

\* the other tools while the Removal Tool is used: the Compair Tool and the
\* pattern dialog as they are created, the Disagreement Manager not opened,
\* the configuration of a first start
OtherToolsClosed ==
  /\ compairTool = NewCompairTool
  /\ patternDialog = NewPatternDialog(<<>>, NewConfig)
  /\ disagreementManager = ClosedDisagreementManager(<<>>)
  /\ config = NewConfig

-----------------------------------------------------------------------------
(* State                                                                    *)

Runs == 1..MaxRuns

Msg(type, data) == [type |-> type, data |-> data]

\* the locals of one execution of _process_removal, before it starts
FreshWorker ==
  [pc               |-> "unborn",
   old_df           |-> NoFile,
   comment_col      |-> 0,
   old_patterns_map |-> EmptyMap,
   values           |-> <<>>,     \* the rows df.iterrows() iterates over
   idx              |-> 0,
   changes_made     |-> FALSE,
   removed_patterns |-> <<>>,
   removed_comments |-> <<>>,
   ws               |-> [header |-> <<>>, rows |-> <<>>],
   comment_col_letter |-> 0,
   saved            |-> FALSE,
   \* history: the rows this run found changed, the cells it wrote into the
   \* worksheet, and the data frame and the persisted workbook as they were
   \* when the run started
   changed          |-> {},
   written          |-> {},
   df0              |-> <<>>,
   disk0            |-> [header |-> <<>>, rows |-> <<>>]]

\* The tool is opened on a loaded file (the data frame holds what the workbook
\* holds) or with no file loaded.
InitRemovalTool(currents, headers) ==
  /\ \/ /\ excel_file_path = "current.xlsx"
        /\ \E cur \in currents :
             /\ df = cur.rows
             /\ dfColumns = cur.columns
             /\ \E h \in headers :
                  disk = [SheetOf(cur.columns, cur.rows) EXCEPT
                            !.header = IF h = <<>> THEN cur.columns ELSE h]
     \/ /\ excel_file_path = ""
        /\ df = <<>>
        /\ dfColumns = <<>>
        /\ disk = [header |-> <<>>, rows |-> <<>>]
  /\ oldFile = NoFile
  /\ started = 0
  /\ w = [r \in Runs |-> FreshWorker]
  /\ sent = [r \in Runs |-> <<>>]
  /\ nread = [r \in Runs |-> 0]
  /\ mon = [r \in Runs |-> "off"]
  /\ results_text = <<>>
  /\ status_var = <<"Ready">>
  /\ removal_progress = [maximum |-> 100, value |-> 0]
  /\ boxes = <<>>

\* the Removal Tool as it is opened, the other tools not in use
InitWith(currents, headers) ==
  /\ InitRemovalTool(currents, headers)
  /\ OtherToolsClosed

\* (mutation) a message is put at the front of the queue
Put_Front(r, msgs) == sent' = [sent EXCEPT ![r] = msgs \o @]

\* progress_queue.put(...), for each of msgs in turn
Put(r, msgs) == sent' = [sent EXCEPT ![r] = @ \o msgs]

Running(r) == w[r].pc \notin {"unborn", "rejected", "done"}

-----------------------------------------------------------------------------
(* browse_old_file and remove_previously_submitted_requests                 *)

\* filedialog.askopenfilename returns a path (or "" when cancelled: no change)
browse_old_file(files) ==
  /\ \E f \in files : oldFile' = f
  /\ UNCHANGED <<compairTool, patternDialog, disagreementManager, config>>
  /\ UNCHANGED <<df, dfColumns, excel_file_path, disk, started, w, sent, nread, mon,
                 results_text, status_var, removal_progress, boxes>>

\* a click on 'Remove Previously Submitted Requests'
remove_previously_submitted_requests ==
  /\ started < MaxRuns
  /\ LET r == started + 1 IN
     /\ started' = r
     /\ IF excel_file_path = ""
        THEN /\ boxes' = Append(boxes, Msg("showerror", "No main (new) file is loaded."))
             /\ w' = [w EXCEPT ![r].pc = "rejected"]
             /\ UNCHANGED <<mon, status_var, removal_progress>>
        ELSE IF oldFile = NoFile
        THEN /\ boxes' = Append(boxes, Msg("showerror", "No old file is selected."))
             /\ w' = [w EXCEPT ![r].pc = "rejected"]
             /\ UNCHANGED <<mon, status_var, removal_progress>>
        ELSE /\ removal_progress' = [removal_progress EXCEPT !.value = 0]
             /\ status_var' = <<"Loading old file...">>
             \* threading.Thread(target=self._process_removal, ...).start()
             /\ w' = [w EXCEPT ![r] = [@ EXCEPT !.pc = "read_old", !.df0 = df,
                                                !.disk0 = disk]]
             \* self._monitor_progress(progress_queue): the first poll is the
             \* handler's last call, and the thread started above may have put
             \* messages before it reads the queue, so it is a step of
             \* monitor_progress that worker steps may precede
             /\ mon' = [mon EXCEPT ![r] = "polling"]
             /\ UNCHANGED boxes
  /\ UNCHANGED <<compairTool, patternDialog, disagreementManager, config>>
  /\ UNCHANGED <<df, dfColumns, excel_file_path, disk, oldFile, sent, nread,
                 results_text>>

-----------------------------------------------------------------------------
(* _process_removal, one action per step of the worker thread               *)

\* what pd.read_excel reads of a worksheet: an empty cell reads as NaN
ReadSheet(ws, name) ==
  [readable |-> TRUE,
   ncols    |-> Len(ws.header),
   rows     |-> [k \in 1..Len(ws.rows) |->
                  [c \in 1..Len(ws.rows[k]) |->
                     IF c # object_id_col + 1 /\ ws.rows[k][c] = None
                     THEN NaN ELSE ws.rows[k][c]]],
   name     |-> name]

\* the file at self.old_file_path: the selected file or, when the path selected
\* is the path of the loaded workbook, that workbook as it is on disk
PriorFile ==
  IF oldFile.name = excel_file_path THEN ReadSheet(disk, oldFile.name) ELSE oldFile

\* old_df = pd.read_excel(self.old_file_path); put ('status', "Comparing files...")
\* a file that cannot be read raises into the outer except
process_removal_read_old(r) ==
  /\ w[r].pc = "read_old"
  /\ IF oldFile.readable
     THEN /\ w' = [w EXCEPT ![r].pc = "validate", ![r].old_df = PriorFile]
          /\ Put(r, <<Msg("status", "Comparing files...")>>)
     ELSE /\ w' = [w EXCEPT ![r].pc = "done"]
          /\ Put(r, <<Msg("error", "An unexpected error occurred")>>)
  /\ UNCHANGED <<compairTool, patternDialog, disagreementManager, config>>
  /\ UNCHANGED <<df, dfColumns, excel_file_path, disk, oldFile, started, nread, mon,
                 results_text, status_var, removal_progress, boxes>>

\* the error of the column validation, "" when every column is found
ValidationError(columns, old_ncols) ==
  IF ~HasColumn(columns, comment_col_name)
  THEN "Column 'Contractor Proposed Change Comment Input' not found in new file."
  ELSE LET comment_col == get_loc(columns, comment_col_name) IN
       IF proposed_changes_col >= Len(columns)
       THEN "Proposed Changes column not found in new file."
       ELSE IF proposed_changes_col >= old_ncols
       THEN "Proposed Changes column not found in old file."
       ELSE IF comment_col >= Len(columns)
       THEN "'Contractor Proposed Change Comment Input' column not found in new file."
       ELSE IF comment_col >= old_ncols
       THEN "'Contractor Proposed Change Comment Input' column not found in old file."
       ELSE ""

\* (mutation) the object ids are converted to text before the column checks
process_removal_validate_ConvertFirst(r) ==
  /\ w[r].pc = "validate"
  /\ df' = astype_str(df)
  /\ LET err == ValidationError(dfColumns, w[r].old_df.ncols) IN
     IF err # ""
     THEN /\ w' = [w EXCEPT ![r].pc = "done"]
          /\ Put(r, <<Msg("error", err)>>)
     ELSE LET comment_col == get_loc(dfColumns, comment_col_name)
              old_rows == astype_str(w[r].old_df.rows)
          IN  /\ w' = [w EXCEPT ![r] =
                         [@ EXCEPT !.pc = "rows",
                                   !.comment_col = comment_col,
                                   !.old_df = [@ EXCEPT !.rows = old_rows],
                                   !.old_patterns_map = BuildIndex(old_rows, comment_col),
                                   !.values = astype_str(df),
                                   !.idx = 0]]
              /\ Put(r, <<Msg("status", "Processing old patterns..."),
                          Msg("max", Len(df)),
                          Msg("status", "Removing patterns and comments...")>>)
  /\ UNCHANGED <<compairTool, patternDialog, disagreementManager, config>>
  /\ UNCHANGED <<dfColumns, excel_file_path, disk, oldFile, started, nread, mon,
                 results_text, status_var, removal_progress, boxes>>

\* the column checks, the object ids as text, the index, ('max', total_rows)
process_removal_validate(r) ==
  /\ w[r].pc = "validate"
  /\ LET err == ValidationError(dfColumns, w[r].old_df.ncols) IN
     IF err # ""
     THEN /\ w' = [w EXCEPT ![r].pc = "done"]
          /\ Put(r, <<Msg("error", err)>>)
          /\ UNCHANGED df
     ELSE LET comment_col == get_loc(dfColumns, comment_col_name)
              old_rows == astype_str(w[r].old_df.rows)
          IN  /\ df' = astype_str(df)
              /\ w' = [w EXCEPT ![r] =
                         [@ EXCEPT !.pc = "rows",
                                   !.comment_col = comment_col,
                                   !.old_df = [@ EXCEPT !.rows = old_rows],
                                   !.old_patterns_map = BuildIndex(old_rows, comment_col),
                                   !.values = astype_str(df),
                                   !.idx = 0]]
              /\ Put(r, <<Msg("status", "Processing old patterns..."),
                          Msg("max", Len(df)),
                          Msg("status", "Removing patterns and comments...")>>)
  /\ UNCHANGED <<compairTool, patternDialog, disagreementManager, config>>
  /\ UNCHANGED <<dfColumns, excel_file_path, disk, oldFile, started, nread, mon,
                 results_text, status_var, removal_progress, boxes>>

\* (mutation) the lines of every object id are looked up, not those of obj_id
OldSetFor_AnyId(m, obj_id, key) ==
  UNION {m[i][key] : i \in {j \in DOMAIN m : key \in DOMAIN m[j]}}

\* (mutation) the set of the other field is looked up
OldSetFor_OtherField(m, obj_id, key) ==
  LET other == IF key = "patterns" THEN "comments" ELSE "patterns" IN
  IF obj_id \in DOMAIN m /\ other \in DOMAIN m[obj_id] THEN m[obj_id][other] ELSE {}

\* if obj_id in old_patterns_map [and 'comments' in old_patterns_map[obj_id]]
HasEntry(m, obj_id, key) == obj_id \in DOMAIN m /\ key \in DOMAIN m[obj_id]

\* old_patterns_map[obj_id]['patterns'], old_patterns_map[obj_id]['comments']
OldSetFor(m, obj_id, key) == IF HasEntry(m, obj_id, key) THEN m[obj_id][key] ELSE {}

\* (mutation) the sets are looked up without the guard `if obj_id in
\* old_patterns_map`: an unseen id raises KeyError into the outer except
ReconcileRow_NoGuard(r, row) ==
  LET me == w[r]
      idx == me.idx
      obj_id == str(iloc(row, object_id_col))
  IN  IF obj_id \notin DOMAIN me.old_patterns_map
      THEN /\ df' = df
           /\ w' = [w EXCEPT ![r].pc = "done"]
           /\ Put(r, <<Msg("progress", idx + 1),
                       Msg("error", "An unexpected error occurred")>>)
      ELSE LET p == FilterField(iloc(row, proposed_changes_col), TRUE,
                                me.old_patterns_map[obj_id]["patterns"], idx)
               c == FilterField(iloc(row, me.comment_col), TRUE,
                                me.old_patterns_map[obj_id]["comments"], idx)
               df1 == IF p.changed
                      THEN [df EXCEPT ![idx + 1][proposed_changes_col + 1] = p.cell]
                      ELSE df
               df2 == IF c.changed
                      THEN [df1 EXCEPT ![idx + 1][me.comment_col + 1] = c.cell] ELSE df1
           IN  /\ df' = df2
               /\ w' = [w EXCEPT ![r] =
                          [@ EXCEPT !.idx = idx + 1,
                                    !.changes_made = @ \/ p.changed \/ c.changed,
                                    !.removed_patterns = @ \o p.removed,
                                    !.removed_comments = @ \o c.removed,
                                    !.changed = IF p.changed \/ c.changed
                                                THEN @ \cup {idx} ELSE @]]
               /\ Put(r, <<Msg("progress", idx + 1)>>)

\* one iteration of `for idx, row in self.app.model.df.iterrows()`.  The row is
\* the one iterrows() took when the loop started or, when the frame is a single
\* block and iterrows() iterates over a view, the row as it is now.
ReconcileRow(r, row) ==
  LET me == w[r]
      idx == me.idx
      obj_id == str(iloc(row, object_id_col))
      p == FilterField(iloc(row, proposed_changes_col),
                       HasEntry(me.old_patterns_map, obj_id, "patterns"),
                       OldSetFor(me.old_patterns_map, obj_id, "patterns"), idx)
      c == FilterField(iloc(row, me.comment_col),
                       HasEntry(me.old_patterns_map, obj_id, "comments"),
                       OldSetFor(me.old_patterns_map, obj_id, "comments"), idx)
      df1 == IF p.changed
             THEN [df EXCEPT ![idx + 1][proposed_changes_col + 1] = p.cell] ELSE df
      df2 == IF c.changed
             THEN [df1 EXCEPT ![idx + 1][me.comment_col + 1] = c.cell] ELSE df1
  IN  /\ df' = df2
      /\ w' = [w EXCEPT ![r] =
                 [@ EXCEPT !.idx = idx + 1,
                           !.changes_made = @ \/ p.changed \/ c.changed,
                           !.removed_patterns = @ \o p.removed,
                           !.removed_comments = @ \o c.removed,
                           !.changed = IF p.changed \/ c.changed
                                       THEN @ \cup {idx} ELSE @]]
      /\ Put(r, <<Msg("progress", idx + 1)>>)

process_removal_row(r) ==
  /\ w[r].pc = "rows"
  /\ w[r].idx < Len(w[r].values)
  /\ \E row \in {w[r].values[w[r].idx + 1], df[w[r].idx + 1]} : ReconcileRow(r, row)
  /\ UNCHANGED <<compairTool, patternDialog, disagreementManager, config>>
  /\ UNCHANGED <<dfColumns, excel_file_path, disk, oldFile, started, nread, mon,
                 results_text, status_var, removal_progress, boxes>>

NoChangesMessage == "No previously submitted requests or comments were found to remove."

\* after the loop: `if not changes_made` puts the result and returns
process_removal_after_rows(r) ==
  /\ w[r].pc = "rows"
  /\ w[r].idx >= Len(w[r].values)
  /\ IF ~w[r].changes_made
     THEN /\ w' = [w EXCEPT ![r].pc = "done"]
          /\ Put(r, <<Msg("result", [kind |-> NoChangesMessage])>>)
     ELSE /\ w' = [w EXCEPT ![r].pc = "load_workbook"]
          /\ Put(r, <<Msg("status", "Saving changes to Excel file...")>>)
  /\ UNCHANGED <<compairTool, patternDialog, disagreementManager, config>>
  /\ UNCHANGED <<df, dfColumns, excel_file_path, disk, oldFile, started, nread, mon,
                 results_text, status_var, removal_progress, boxes>>

SaveError == "Failed to save updated file"

\* (mutation) the handler of the inner try reports the failure and raises it
\* again, so that the outer handler reports it too
process_removal_load_workbook_Reraise(r) ==
  /\ w[r].pc = "load_workbook"
  /\ \E ok \in BOOLEAN :
       IF ok
       THEN /\ w' = [w EXCEPT ![r] =
                       [@ EXCEPT !.pc = "write",
                                 !.ws = disk,
                                 !.comment_col_letter = FindHeader(disk, comment_col_name),
                                 !.values = df,
                                 !.idx = 0]]
            /\ UNCHANGED sent
       ELSE /\ w' = [w EXCEPT ![r].pc = "done"]
            /\ Put(r, <<Msg("error", "Failed to save updated file"),
                        Msg("error", "An unexpected error occurred")>>)
  /\ UNCHANGED <<compairTool, patternDialog, disagreementManager, config>>
  /\ UNCHANGED <<df, dfColumns, excel_file_path, disk, oldFile, started, nread, mon,
                 results_text, status_var, removal_progress, boxes>>

\* wb = load_workbook(excel_file_path); ws = wb.active; the header search.
\* load_workbook raises when the file cannot be opened.
process_removal_load_workbook(r) ==
  /\ w[r].pc = "load_workbook"
  /\ \E ok \in BOOLEAN :
       IF ok
       THEN /\ w' = [w EXCEPT ![r] =
                       [@ EXCEPT !.pc = "write",
                                 !.ws = disk,
                                 !.comment_col_letter = FindHeader(disk, comment_col_name),
                                 !.values = df,
                                 !.idx = 0]]
            /\ UNCHANGED sent
       ELSE /\ w' = [w EXCEPT ![r].pc = "done"]
            /\ Put(r, <<Msg("error", SaveError)>>)
  /\ UNCHANGED <<compairTool, patternDialog, disagreementManager, config>>
  /\ UNCHANGED <<df, dfColumns, excel_file_path, disk, oldFile, started, nread, mon,
                 results_text, status_var, removal_progress, boxes>>

\* one iteration of `for idx, row in enumerate(self.app.model.df.iterrows())`
WriteRow(r, row_data) ==
  LET me == w[r]
      idx == me.idx
      new_content == OrEmpty(iloc(row_data, proposed_changes_col))
      new_comment_content == OrEmpty(iloc(row_data, me.comment_col))
      ws1 == SetCell(me.ws, idx + RowOffset, ProposedChangesWsCol, new_content)
      ws2 == IF me.comment_col_letter # 0
             THEN SetCell(ws1, idx + RowOffset, me.comment_col_letter, new_comment_content)
             ELSE ws1
  IN  w' = [w EXCEPT ![r] =
              [@ EXCEPT !.idx = idx + 1,
                        !.ws = ws2,
                        !.written = @ \cup {<<idx + RowOffset, ProposedChangesWsCol>>}
                                      \cup (IF me.comment_col_letter # 0
                                            THEN {<<idx + RowOffset, me.comment_col_letter>>}
                                            ELSE {})]]

\* a cell write that raises (a merged or otherwise unwritable cell) ends the run
process_removal_write_row(r) ==
  /\ w[r].pc = "write"
  /\ w[r].idx < Len(w[r].values)
  /\ \/ /\ \E row_data \in {w[r].values[w[r].idx + 1], df[w[r].idx + 1]} :
             WriteRow(r, row_data)
        /\ UNCHANGED sent
     \/ /\ w' = [w EXCEPT ![r].pc = "done"]
        /\ Put(r, <<Msg("error", SaveError)>>)
  /\ UNCHANGED <<compairTool, patternDialog, disagreementManager, config>>
  /\ UNCHANGED <<df, dfColumns, excel_file_path, disk, oldFile, started, nread, mon,
                 results_text, status_var, removal_progress, boxes>>

Min(a, b) == IF a < b THEN a ELSE b

\* (mutation) the last entries are rendered, not the first
Summary_Last(removed) ==
  [count   |-> Len(removed),
   entries |-> SubSeq(removed, Len(removed) - Min(Len(removed), SummaryCap) + 1,
                      Len(removed)),
   more    |-> IF Len(removed) > SummaryCap THEN Len(removed) - SummaryCap ELSE 0]

\* "\n".join(removed[:20]) and "... and {len(removed) - 20} more"
Summary(removed) ==
  [count   |-> Len(removed),
   entries |-> SubSeq(removed, 1, Min(Len(removed), SummaryCap)),
   more    |-> IF Len(removed) > SummaryCap THEN Len(removed) - SummaryCap ELSE 0]

ResultMessage(removed_patterns, removed_comments) ==
  [kind     |-> "Successfully removed",
   patterns |-> Summary(removed_patterns),
   comments |-> Summary(removed_comments)]

\* wb.save(excel_file_path) and the result message; a save that raises
\* (the file is open elsewhere, the folder is read-only) leaves the file as it was
process_removal_save(r) ==
  /\ w[r].pc = "write"
  /\ w[r].idx >= Len(w[r].values)
  /\ \E ok \in BOOLEAN :
       IF ok
       THEN /\ disk' = SavedSheet(w[r].ws)
            /\ w' = [w EXCEPT ![r].pc = "done", ![r].saved = TRUE]
            /\ Put(r, <<Msg("result", ResultMessage(w[r].removed_patterns,
                                                    w[r].removed_comments))>>)
       ELSE /\ w' = [w EXCEPT ![r].pc = "done"]
            /\ Put(r, <<Msg("error", SaveError)>>)
            /\ UNCHANGED disk
  /\ UNCHANGED <<compairTool, patternDialog, disagreementManager, config>>
  /\ UNCHANGED <<df, dfColumns, excel_file_path, oldFile, started, nread, mon,
                 results_text, status_var, removal_progress, boxes>>

-----------------------------------------------------------------------------
(* _monitor_progress, one poll of the queue.  The parameter `queue` hides   *)
(* the module of that name: when get_nowait() raises on an empty queue, the *)
(* clause `except queue.Empty` raises AttributeError, the outer handler     *)
(* shows an error box and the next poll is never scheduled.                 *)

SuccessBox == "Previously submitted requests and comments have been removed."
MonitorErrorBox == "An unexpected error occurred while monitoring progress"

monitor_progress(r) ==
  /\ mon[r] = "polling"
  /\ IF nread[r] < Len(sent[r])
     THEN LET m == sent[r][nread[r] + 1] IN
          /\ nread' = [nread EXCEPT ![r] = @ + 1]
          /\ CASE m.type = "status" ->
                    /\ status_var' = <<m.data>>
                    /\ UNCHANGED <<removal_progress, results_text, boxes, mon>>
               [] m.type = "max" ->
                    /\ removal_progress' = [removal_progress EXCEPT !.maximum = m.data]
                    /\ UNCHANGED <<status_var, results_text, boxes, mon>>
               [] m.type = "progress" ->
                    /\ removal_progress' = [removal_progress EXCEPT !.value = m.data]
                    /\ status_var' =
                         IF removal_progress.maximum > 0
                         THEN <<"Processing...", (m.data * 100) \div removal_progress.maximum>>
                         ELSE status_var
                    /\ UNCHANGED <<results_text, boxes, mon>>
               [] m.type = "result" ->
                    /\ results_text' = <<"", m.data>>
                    /\ status_var' = <<"Completed">>
                    /\ boxes' = Append(boxes, Msg("showinfo", SuccessBox))
                    /\ mon' = [mon EXCEPT ![r] = "done"]
                    /\ UNCHANGED removal_progress
               [] m.type = "error" ->
                    /\ results_text' = <<"ERROR: ", m.data>>
                    /\ status_var' = <<"Error">>
                    /\ boxes' = Append(boxes, Msg("showerror", m.data))
                    /\ mon' = [mon EXCEPT ![r] = "done"]
                    /\ UNCHANGED removal_progress
     ELSE /\ boxes' = Append(boxes, Msg("showerror", MonitorErrorBox))
          /\ mon' = [mon EXCEPT ![r] = "crashed"]
          /\ UNCHANGED <<nread, results_text, status_var, removal_progress>>
  /\ UNCHANGED <<compairTool, patternDialog, disagreementManager, config>>
  /\ UNCHANGED <<df, dfColumns, excel_file_path, disk, oldFile, started, w, sent>>

-----------------------------------------------------------------------------
(* Specifications                                                           *)

process_removal(r) ==
  \/ process_removal_read_old(r)
  \/ process_removal_validate(r)
  \/ process_removal_row(r)
  \/ process_removal_after_rows(r)
  \/ process_removal_load_workbook(r)
  \/ process_removal_write_row(r)
  \/ process_removal_save(r)

\* The tool as it runs: the user browses and clicks at any time, every click
\* starts a worker thread and a monitor, and the threads interleave.
Init == InitWith(SmallCurrentFiles, {<<>>})

Next ==
  \/ browse_old_file(ConcurrentOldFiles)
  \/ remove_previously_submitted_requests
  \/ \E r \in Runs : process_removal(r)
  \/ \E r \in Runs : monitor_progress(r)

Spec == Init /\ [][Next]_vars

\* The reconciliation on many files: one old file is selected, before any
\* click, and the user clicks again only after the previous run has ended.
InitData == InitWith(CurrentFiles, {<<>>})

BrowseFirst == started = 0 /\ oldFile = NoFile /\ browse_old_file(OldFiles)

ClickWhenIdle ==
  /\ \A r \in Runs : ~Running(r)
  /\ remove_previously_submitted_requests

NextData ==
  \/ BrowseFirst
  \/ ClickWhenIdle
  \/ \E r \in Runs : process_removal(r)

SpecData == InitData /\ [][NextData]_vars

\* The write-back: the user may select another old file between clicks, clicks
\* again only after the previous run has ended, and the header row of the
\* persisted workbook may differ from the columns of the data frame.
InitWrite == InitWith(SmallCurrentFiles, {<<>>, ColumnsNoComment})

BrowseAny == browse_old_file(WriteOldFiles)

NextWrite ==
  \/ BrowseAny
  \/ ClickWhenIdle
  \/ \E r \in Runs : process_removal(r)

SpecWrite == InitWrite /\ [][NextWrite]_vars

\* The summary: runs on cells of many lines, so that a category of the result
\* message holds more removals than it renders.
InitSummary == InitWith(SummaryCurrentFiles, {<<>>})

BrowseSummary == started = 0 /\ oldFile = NoFile /\ browse_old_file(SummaryOldFiles)

NextSummary ==
  \/ BrowseSummary
  \/ ClickWhenIdle
  \/ \E r \in Runs : process_removal(r)

SpecSummary == InitSummary /\ [][NextSummary]_vars

\* The line extraction: one run on a one-row file and a one-row old file, one
\* of the two pattern cells being the fixed one.
InitLines == InitWith(LineCurrentFiles, {<<>>})

BrowseLines ==
  /\ started = 0 /\ oldFile = NoFile
  /\ browse_old_file({f \in LineOldFiles :
        /\ df # <<>>
        /\ \/ iloc(df[1], proposed_changes_col) = FixedCurrentCell
           \/ iloc(f.rows[1], proposed_changes_col) = FixedOldCell})

NextLines ==
  \/ BrowseLines
  \/ ClickWhenIdle
  \/ \E r \in Runs : process_removal(r)

SpecLines == InitLines /\ [][NextLines]_vars

\* The rows: the reconciliation of many current files against a few old files.
InitRows == InitWith(CurrentFiles, {<<>>})

BrowseRows == started = 0 /\ oldFile = NoFile /\ browse_old_file(RowOldFiles)

NextRows ==
  \/ BrowseRows
  \/ ClickWhenIdle
  \/ \E r \in Runs : process_removal(r)

SpecRows == InitRows /\ [][NextRows]_vars

\* The old file is the loaded workbook: the user selects, as the old file, the
\* file the main window has loaded.
InitSameFile == InitWith(CurrentFiles, {<<>>})

BrowseSameFile == started = 0 /\ oldFile = NoFile /\ browse_old_file(SameFileSelected)

NextSameFile ==
  \/ BrowseSameFile
  \/ ClickWhenIdle
  \/ \E r \in Runs : process_removal(r)

SpecSameFile == InitSameFile /\ [][NextSameFile]_vars

\* The monitor: one old file, selected before any click, a click only after the
\* previous run has ended, and the monitor of every run polling its queue
\* while the worker fills it.
InitMonitor == InitWith(FairCurrentFiles, {<<>>})

BrowseMonitor == started = 0 /\ oldFile = NoFile /\ browse_old_file(WriteOldFiles)

NextMonitor ==
  \/ BrowseMonitor
  \/ ClickWhenIdle
  \/ \E r \in Runs : process_removal(r)
  \/ \E r \in Runs : monitor_progress(r)

SpecMonitor == InitMonitor /\ [][NextMonitor]_vars

\* The runs under the scheduler: the files of every path through the worker
\* (a missing column, an old file that cannot be read, lines to remove, none
\* left to remove), and a worker thread that can take a step eventually takes
\* one: the interpreter schedules it, and nothing in the tool suspends or
\* stops a thread.  The user may select another old file at any time.
InitFair == InitWith(FairCurrentFiles, {<<>>})

BrowseFair == browse_old_file(FairOldFiles)

NextFair ==
  \/ BrowseFair
  \/ ClickWhenIdle
  \/ \E r \in Runs : process_removal(r)

SpecFair ==
  /\ InitFair
  /\ [][NextFair]_vars
  /\ \A r \in Runs : WF_vars(process_removal(r))

-----------------------------------------------------------------------------
(* Properties                                                               *)

\* run r passed the column validation and built its index
Validated(r) == \E i \in 1..Len(sent[r]) : sent[r][i].type = "max"

\* run r is the latest run (in progress, or ended with no click after it) and
\* passed the validation: its locals are what they will stay, and the data
\* frame is as this run left it
Latest(r) == started = r /\ Validated(r)

\* run r finished the loop over the current rows
LoopDone(r) == Validated(r) /\ w[r].pc \in {"load_workbook", "write", "done"}

LastMsg(r) == sent[r][Len(sent[r])]

NoChangesOutcome(r) ==
  /\ sent[r] # <<>>
  /\ LastMsg(r).type = "result"
  /\ LastMsg(r).data.kind = NoChangesMessage

PatternLines(row) == ExtractLines(iloc(row, proposed_changes_col))
CommentLines(row, comment_col) == ExtractLines(iloc(row, comment_col))

\* the 1-based positions of the old rows of object id `id`
RowsWithId(rows, id) == {i \in 1..Len(rows) : str(iloc(rows[i], object_id_col)) = id}

Last(S) == CHOOSE i \in S : \A j \in S : j <= i

\* the 1-based position in the data frame of the row a removal entry names
EntryRow(e) == e.row - RowOffset + 1

RECURSIVE IsSubseq(_, _)
IsSubseq(s, t) ==
  IF s = <<>> THEN TRUE
  ELSE IF t = <<>> THEN FALSE
  ELSE IF Head(s) = Head(t) THEN IsSubseq(Tail(s), Tail(t))
  ELSE IsSubseq(s, Tail(t))

\* C1: Idempotence of removal.  A run that reconciles the current snapshot
\* against the same index as an earlier, completed reconciliation removes no
\* pattern line and no comment line from any row: no row is changed, both
\* removed lists are empty and the run ends with the 'no changes' result.
C1_Idempotence ==
  \A r1, r2 \in Runs :
    (r1 < r2 /\ LoopDone(r1) /\ Validated(r2)
       /\ w[r2].old_patterns_map = w[r1].old_patterns_map)
    => /\ w[r2].changed = {}
       /\ ~w[r2].changes_made
       /\ w[r2].removed_patterns = <<>>
       /\ w[r2].removed_comments = <<>>
       /\ w[r2].pc = "done" => NoChangesOutcome(r2)

\* a second run over at least one row, after a first run that removed lines,
\* against the same index
C1_Witness ==
  \E r1, r2 \in Runs :
    /\ r1 < r2 /\ LoopDone(r1) /\ w[r1].changed # {}
    /\ Validated(r2) /\ w[r2].pc = "done"
    /\ w[r2].old_patterns_map = w[r1].old_patterns_map

\* C2 (as claimed): Union accumulation.  The pattern set the index holds for
\* an object id is the union of the pattern line sets of all prior rows with
\* that id.
C2_UnionAccumulation ==
  \A r \in Runs :
    Latest(r) =>
      \A id \in DOMAIN w[r].old_patterns_map :
        w[r].old_patterns_map[id]["patterns"] =
          UNION {Range(PatternLines(w[r].old_df.rows[i])) :
                   i \in RowsWithId(w[r].old_df.rows, id)}

\* C2 (amended): Last row wins.  The pattern set the index holds for an object
\* id is the pattern line set of the LAST prior row with that id, and a current
\* pattern line is removed only if it is a line of that last row.
C2_LastRowWins ==
  \A r \in Runs :
    Latest(r) =>
      /\ \A id \in DOMAIN w[r].old_patterns_map :
           LET same == RowsWithId(w[r].old_df.rows, id) IN
           /\ same # {}
           /\ w[r].old_patterns_map[id]["patterns"] =
                Range(PatternLines(w[r].old_df.rows[Last(same)]))
      /\ \A n \in 1..Len(w[r].removed_patterns) :
           LET e == w[r].removed_patterns[n]
               id == str(iloc(w[r].df0[EntryRow(e)], object_id_col))
               same == RowsWithId(w[r].old_df.rows, id)
           IN  /\ same # {}
               /\ e.line \in Range(PatternLines(w[r].old_df.rows[Last(same)]))

\* two prior rows of one id with disjoint pattern lines, and a current row of
\* that id that keeps a line of the earlier one while a line of the later one
\* was removed from it
C2_Witness ==
  \E r \in Runs :
    /\ LoopDone(r)
    /\ \E i, j \in 1..Len(w[r].old_df.rows) :
         LET rows == w[r].old_df.rows
             id == str(iloc(rows[i], object_id_col))
         IN  /\ i < j
             /\ j = Last(RowsWithId(rows, id))
             /\ Range(PatternLines(rows[i])) # {}
             /\ Range(PatternLines(rows[j])) # {}
             /\ Range(PatternLines(rows[i])) \cap Range(PatternLines(rows[j])) = {}
             /\ \E k \in 1..Len(df) :
                  /\ str(iloc(df[k], object_id_col)) = id
                  /\ \E n \in 1..Len(w[r].removed_patterns) :
                       EntryRow(w[r].removed_patterns[n]) = k
                  /\ Range(PatternLines(df[k])) \cap Range(PatternLines(rows[i])) # {}

\* C9: No cross-contamination between object ids.  Every pattern (comment)
\* line removed from a row of object id A is in the prior pattern (comment)
\* set indexed under A, and a row no removal entry names holds exactly the
\* cells it held when the run started.
C9_NoCrossContamination ==
  \A r \in Runs :
    Latest(r) =>
      /\ \A n \in 1..Len(w[r].removed_patterns) :
           LET e == w[r].removed_patterns[n]
               id == str(iloc(w[r].df0[EntryRow(e)], object_id_col))
           IN  /\ id \in DOMAIN w[r].old_patterns_map
               /\ e.line \in w[r].old_patterns_map[id]["patterns"]
      /\ \A n \in 1..Len(w[r].removed_comments) :
           LET e == w[r].removed_comments[n]
               id == str(iloc(w[r].df0[EntryRow(e)], object_id_col))
           IN  /\ id \in DOMAIN w[r].old_patterns_map
               /\ e.line \in w[r].old_patterns_map[id]["comments"]
      /\ \A k \in 1..Len(df) :
           (/\ \A n \in 1..Len(w[r].removed_patterns) :
                 EntryRow(w[r].removed_patterns[n]) # k
            /\ \A n \in 1..Len(w[r].removed_comments) :
                 EntryRow(w[r].removed_comments[n]) # k)
           => df[k] = astype_str(w[r].df0)[k]

\* a line was removed from a row of one id while a row of another id, which
\* is in the index too, keeps a line that is in the first id's prior set
C9_Witness ==
  \E r \in Runs :
    /\ LoopDone(r)
    /\ \E n \in 1..Len(w[r].removed_patterns), k \in 1..Len(df) :
         LET e == w[r].removed_patterns[n]
             idA == str(iloc(df[EntryRow(e)], object_id_col))
             idB == str(iloc(df[k], object_id_col))
         IN  /\ idA # idB
             /\ idB \in DOMAIN w[r].old_patterns_map
             /\ Range(PatternLines(df[k])) \cap w[r].old_patterns_map[idA]["patterns"] # {}

\* C10: Order preservation.  For every row and for both fields the lines the
\* cell holds after filtering form a subsequence of the trimmed non-empty
\* lines it held when the run started.
C10_OrderPreservation ==
  \A r \in Runs :
    Latest(r) =>
      \A k \in 1..Len(df) :
        /\ IsSubseq(PatternLines(df[k]), PatternLines(w[r].df0[k]))
        /\ IsSubseq(CommentLines(df[k], w[r].comment_col),
                    CommentLines(w[r].df0[k], w[r].comment_col))

\* a row that held three lines, lost one and keeps two different ones
C10_Witness ==
  \E r \in Runs :
    /\ LoopDone(r)
    /\ \E k \in 1..Len(df) :
         /\ Len(PatternLines(w[r].df0[k])) >= 3
         /\ Len(PatternLines(df[k])) = 2
         /\ PatternLines(df[k])[1] # PatternLines(df[k])[2]

\* the run ended (its terminal message is on the queue) and no later click
\* has been made
Ended(r) == w[r].pc = "done" /\ started = r

\* the 1-based data-frame position of the worksheet row of a written cell
CellRow(cell) == cell[1] - RowOffset + 1

\* C3: Selective write.  The only worksheet cells a run writes are the pattern
\* cell and the comment cell of rows its reconciliation found changed.
C3_SelectiveWrite ==
  \A r \in Runs :
    \A cell \in w[r].written : (CellRow(cell) - 1) \in w[r].changed

\* C4: Untouched-row invariant.  After a run that saved the workbook, every
\* row the run did not change holds in the persisted workbook exactly the
\* cells it held before the run.
C4_UntouchedRows ==
  \A r \in Runs :
    (Ended(r) /\ w[r].saved) =>
      \A k \in 1..Len(disk.rows) :
        (k - 1) \notin w[r].changed => disk.rows[k] = w[r].disk0.rows[k]

\* C5: Schema mismatch aborts the write.  When the comment header is not in
\* the header row of the loaded workbook, the run writes no cell and does not
\* save, and it ends with an error.
C5_SchemaMismatchAborts ==
  \A r \in Runs :
    (w[r].ws.header # <<>> /\ FindHeader(w[r].ws, comment_col_name) = 0) =>
      /\ w[r].written = {}
      /\ ~w[r].saved
      /\ w[r].pc = "done" => LastMsg(r).type = "error"

\* the text a data-frame cell is persisted as
Persisted(v) == SavedCell(OrEmpty(v))

\* C6: Atomic write.  After any run, either the persisted workbook is as it
\* was before the run, or the file was saved and the pattern cell and the
\* comment cell of every changed row hold the filtered text.
C6_AtomicWrite ==
  \A r \in Runs :
    Ended(r) =>
      \/ disk = w[r].disk0
      \/ /\ w[r].saved
         /\ \A i \in w[r].changed :
              /\ disk.rows[i + 1][proposed_changes_col + 1] =
                   Persisted(iloc(df[i + 1], proposed_changes_col))
              /\ disk.rows[i + 1][w[r].comment_col + 1] =
                   Persisted(iloc(df[i + 1], w[r].comment_col))

\* C7: Mutual exclusion of removal cycles.  At no time are two executions of
\* _process_removal in progress.
C7_MutualExclusion ==
  \A r1, r2 \in Runs : (Running(r1) /\ Running(r2)) => r1 = r2

\* C8: Result delivery to the UI.  The monitor of a started run stops polling
\* only when it has dequeued the run's terminal 'result' or 'error' message.
C8_ResultDelivered ==
  \A r \in Runs :
    mon[r] \in {"done", "crashed"} =>
      /\ nread[r] > 0
      /\ sent[r][nread[r]].type \in {"result", "error"}

\* the old file of run r was read and a column check of the run fails
MissingColumn(r) ==
  /\ w[r].old_df.readable
  /\ ValidationError(dfColumns, w[r].old_df.ncols) # ""

\* C11: Missing column is reported before any mutation.  When a column check
\* fails, the run ends with the error of that check, and the data frame and
\* the persisted workbook are cell for cell what they were when it started.
C11_MissingColumnBeforeMutation ==
  \A r \in Runs :
    (started = r /\ MissingColumn(r) /\ w[r].pc # "validate") =>
      /\ w[r].pc = "done"
      /\ LastMsg(r) = Msg("error", ValidationError(dfColumns, w[r].old_df.ncols))
      /\ df = w[r].df0
      /\ disk = w[r].disk0

\* a run ended by a failed column check on a data frame that holds a numeric
\* object id (which the conversion to text would have rewritten)
C11_Witness ==
  \E r \in Runs :
    /\ started = r /\ MissingColumn(r) /\ w[r].pc = "done"
    /\ \E k \in 1..Len(df) : iloc(df[k], object_id_col).t = "int"

\* C12: Distinguished no-changes outcome.  When the monitor dequeues the
\* result of a run that found nothing to remove, the message box it shows is
\* not the one that announces that requests and comments have been removed.
C12_DistinguishedNoChanges ==
  [][\A r \in Runs :
       (/\ nread'[r] = nread[r] + 1
        /\ sent[r][nread'[r]] = Msg("result", [kind |-> NoChangesMessage]))
       => boxes' # Append(boxes, Msg("showinfo", SuccessBox))]_vars

\* run r ended with the result message of a removal
RemovalResult(r) ==
  /\ w[r].pc = "done" /\ w[r].saved
  /\ LastMsg(r).type = "result"
  /\ LastMsg(r).data.kind = "Successfully removed"

\* what the summary of one category renders of the removals of that category
Bounded(summary, removed) ==
  LET n == Len(removed) IN
  /\ summary.count = n
  /\ Len(summary.entries) = (IF n < SummaryCap THEN n ELSE SummaryCap)
  /\ \A i \in 1..Len(summary.entries) : summary.entries[i] = removed[i]
  /\ n > SummaryCap => summary.more = n - SummaryCap
  /\ n <= SummaryCap => summary.more = 0

\* C13: Bounded diff summary.  For each category the result message renders
\* the first min(n, 20) of the n removal entries, in removal order, and states
\* the remainder n - 20 when n > 20 and no remainder otherwise.
C13_BoundedSummary ==
  \A r \in Runs :
    RemovalResult(r) =>
      /\ Bounded(LastMsg(r).data.patterns, w[r].removed_patterns)
      /\ Bounded(LastMsg(r).data.comments, w[r].removed_comments)

\* a result of 25 removed patterns (20 rendered, 5 more) and of some comments,
\* fewer than the cap
C13_Witness ==
  \E r \in Runs :
    /\ RemovalResult(r)
    /\ Len(w[r].removed_patterns) = SummaryCap + 5
    /\ LastMsg(r).data.patterns.more = 5
    /\ Len(LastMsg(r).data.patterns.entries) = SummaryCap
    /\ Len(w[r].removed_comments) \in 1..SummaryCap

\* the lines of the entries of a removed list that name data-frame row k
LinesOfRow(removed, k) ==
  LET OfRow(e) == EntryRow(e) = k
      entries == SelectSeq(removed, OfRow)
  IN  [i \in 1..Len(entries) |-> entries[i].line]

\* the entries of one removed list name their rows: each entry names a row of
\* the data frame that held its line in the field, the rows never decrease,
\* and the lines of one row are in the order the field held them
NumberedEntries(removed, rows, col) ==
  /\ \A n \in 1..Len(removed) :
       /\ EntryRow(removed[n]) \in 1..Len(rows)
       /\ removed[n].row = (EntryRow(removed[n]) - 1) + RowOffset
       /\ removed[n].line \in Range(ExtractLines(iloc(rows[EntryRow(removed[n])], col)))
  /\ \A n, m \in 1..Len(removed) : n < m => removed[n].row <= removed[m].row
  /\ \A k \in 1..Len(rows) :
       IsSubseq(LinesOfRow(removed, k), ExtractLines(iloc(rows[k], col)))

\* after the save the worksheet row an entry names holds, in worksheet column
\* wscol, the filtered text of the data-frame row of the entry
WrittenWhereNamed(removed, col, wscol) ==
  \A n \in 1..Len(removed) :
    disk.rows[WsIndex(removed[n].row)][wscol] =
      Persisted(iloc(df[EntryRow(removed[n])], col))

\* C14: Row numbering.  Every removal entry names row r = 0-based ordinal + 2
\* of the row that held the line, the entries are in increasing row order and
\* within a row in line order, and r is the worksheet row into which the
\* filtered cells of that row are written.
C14_RowNumbering ==
  \A r \in Runs :
    Latest(r) =>
      /\ NumberedEntries(w[r].removed_patterns, w[r].df0, proposed_changes_col)
      /\ NumberedEntries(w[r].removed_comments, w[r].df0, w[r].comment_col)
      /\ (Ended(r) /\ w[r].saved) =>
           /\ WrittenWhereNamed(w[r].removed_patterns, proposed_changes_col,
                                ProposedChangesWsCol)
           /\ WrittenWhereNamed(w[r].removed_comments, w[r].comment_col,
                                w[r].comment_col_letter)

\* a saved run that removed two lines from one row and a line from a later row
C14_Witness ==
  \E r \in Runs :
    /\ Ended(r) /\ w[r].saved
    /\ \E n, m, l \in 1..Len(w[r].removed_patterns) :
         LET e == w[r].removed_patterns IN
         /\ n < m /\ m < l
         /\ e[n].row = e[m].row /\ e[n].line # e[m].line
         /\ e[m].row < e[l].row

\* the 1-based positions of the rows run r has reconciled
Reconciled(r) == 1..(IF w[r].pc = "rows" THEN w[r].idx ELSE Len(w[r].df0))

\* the lines of `lines` that are (keep = FALSE: are not) in `among`, in order
Those(lines, among, keep) ==
  LET Sel(l) == (l \in among) = keep IN SelectSeq(lines, Sel)

\* field `col` of reconciled row k of run r against the prior set `old_set`:
\* the survivors are the lines not in the set, the removed lines those in it
FilteredAgainst(r, k, col, removed, old_set) ==
  LET lines == ExtractLines(iloc(w[r].df0[k], col)) IN
  /\ ExtractLines(iloc(df[k], col)) = Those(lines, old_set, FALSE)
  /\ LinesOfRow(removed, k) = Those(lines, old_set, TRUE)

\* the number of lines of field `col` of row k before and after differ
Shorter(r, k, col) ==
  Len(ExtractLines(iloc(df[k], col))) # Len(ExtractLines(iloc(w[r].df0[k], col)))

\* C15: Filter semantics.  For every reconciled row whose object id is in the
\* index, the surviving lines of a field are exactly its trimmed non-empty
\* lines that are not in the prior set of the id, the removed lines exactly
\* those that are, and the row is changed iff the pattern field or the comment
\* field has fewer lines than before.
C15_FilterSemantics ==
  \A r \in Runs :
    Latest(r) =>
      \A k \in Reconciled(r) :
        LET id == str(iloc(w[r].df0[k], object_id_col))
            m == w[r].old_patterns_map
        IN  id \in DOMAIN m =>
              /\ FilteredAgainst(r, k, proposed_changes_col, w[r].removed_patterns,
                                 m[id]["patterns"])
              /\ FilteredAgainst(r, k, w[r].comment_col, w[r].removed_comments,
                                 m[id]["comments"])
              /\ ((k - 1) \in w[r].changed) <=>
                   (Shorter(r, k, proposed_changes_col) \/ Shorter(r, k, w[r].comment_col))

\* a reconciled row of three pattern lines of which two were removed and one
\* survives, the last line among the removed ones
C15_Witness ==
  \E r \in Runs :
    /\ LoopDone(r) /\ started = r
    /\ \E k \in 1..Len(df) :
         LET lines == PatternLines(w[r].df0[k]) IN
         /\ Len(lines) = 3
         /\ Len(PatternLines(df[k])) = 1
         /\ LinesOfRow(w[r].removed_patterns, k) = <<lines[1], lines[3]>>
         /\ (k - 1) \in w[r].changed

\* C16: Unseen object id is a normal case.  For a reconciled row whose object
\* id is not in the index no line of either field is removed, the row is not
\* changed, its cells hold what they held when the run started (the object id,
\* converted to text like that of every row, names the same id), and the run
\* does not end with the error of a raised exception.
C16_UnseenIdUntouched ==
  \A r \in Runs :
    Latest(r) =>
      /\ \A k \in Reconciled(r) :
           str(iloc(w[r].df0[k], object_id_col)) \notin DOMAIN w[r].old_patterns_map =>
             /\ LinesOfRow(w[r].removed_patterns, k) = <<>>
             /\ LinesOfRow(w[r].removed_comments, k) = <<>>
             /\ (k - 1) \notin w[r].changed
             /\ str(iloc(df[k], object_id_col)) = str(iloc(w[r].df0[k], object_id_col))
             /\ \A c \in 1..Len(df[k]) :
                  c # object_id_col + 1 => df[k][c] = w[r].df0[k][c]
      /\ LastMsg(r) # Msg("error", "An unexpected error occurred")

\* a run that changed a row, and a reconciled row of an unseen id whose pattern
\* cell is not trimmed and holds a line of the prior set of another id
C16_Witness ==
  \E r \in Runs :
    /\ LoopDone(r) /\ started = r /\ w[r].changed # {}
    /\ \E k \in 1..Len(df) :
         /\ str(iloc(df[k], object_id_col)) \notin DOMAIN w[r].old_patterns_map
         /\ ~isna(iloc(df[k], proposed_changes_col))
         /\ Head(iloc(df[k], proposed_changes_col)) = SP
         /\ \E id \in DOMAIN w[r].old_patterns_map :
              Range(PatternLines(df[k])) \cap w[r].old_patterns_map[id]["patterns"] # {}

\* The lines of a cell, stated on the positions of its text: a piece runs from
\* after a newline (or the start) to before the next newline (or the end), its
\* line is the text from its first to its last character that is not a space,
\* and the lines of the cell are those of its pieces that have one, in order.
TextOf(cell) == IF isna(cell) THEN <<>> ELSE cell

PieceStarts(t) == {a \in 0..Len(t) : a = 0 \/ t[a] = NL}

PieceEnd(t, a) ==
  CHOOSE b \in (a + 1)..(Len(t) + 1) :
    /\ b = Len(t) + 1 \/ t[b] = NL
    /\ \A i \in (a + 1)..(b - 1) : t[i] # NL

Inked(t, a) == {i \in (a + 1)..(PieceEnd(t, a) - 1) : t[i] # SP}

LineAt(t, a) ==
  LET ink == Inked(t, a) IN
  SubSeq(t, CHOOSE i \in ink : \A j \in ink : i <= j,
            CHOOSE i \in ink : \A j \in ink : j <= i)

LinesSpec(cell) ==
  LET t == TextOf(cell)
      starts == {a \in PieceStarts(t) : Inked(t, a) # {}}
      Nth(k) == CHOOSE a \in starts : Cardinality({b \in starts : b < a}) = k - 1
  IN  [k \in 1..Cardinality(starts) |-> LineAt(t, Nth(k))]

\* C17: Line extraction.  The lines the run works on, for a prior cell and for
\* a current cell alike, are those of the cell read as text (a blank cell as
\* the empty text), split on newline, each piece trimmed, the empty pieces
\* discarded, in order: the index holds the set of the lines of the prior
\* cell, the lines removed from the current cell are its lines that are in
\* that set, in order, and a cell that lost a line holds its other lines, in
\* order; a blank cell has no line, loses none and is not changed.
C17_LineExtraction ==
  \A r \in Runs :
    (Latest(r) /\ Len(w[r].df0) = 1 /\ Len(w[r].old_df.rows) = 1) =>
      LET old_lines == LinesSpec(iloc(w[r].old_df.rows[1], proposed_changes_col))
          id == str(iloc(w[r].old_df.rows[1], object_id_col))
          cell0 == iloc(w[r].df0[1], proposed_changes_col)
          new_lines == LinesSpec(cell0)
          cell == iloc(df[1], proposed_changes_col)
      IN  /\ w[r].old_patterns_map[id]["patterns"] = Range(old_lines)
          /\ LoopDone(r) =>
               /\ LinesOfRow(w[r].removed_patterns, 1) =
                    Those(new_lines, Range(old_lines), TRUE)
               /\ IF Those(new_lines, Range(old_lines), TRUE) # <<>>
                  THEN /\ w[r].changed = {0}
                       /\ cell = join(Those(new_lines, Range(old_lines), FALSE), NL)
                  ELSE /\ w[r].changed = {}
                       /\ cell = cell0
               /\ new_lines = <<>> => w[r].changed = {}

\* the cell "A \n\nB" (a line to trim, a blank line, a second line) of which
\* the line A was removed and the line B is left
C17_Witness ==
  \E r \in Runs :
    /\ LoopDone(r) /\ started = r
    /\ Len(w[r].df0) = 1
    /\ iloc(w[r].df0[1], proposed_changes_col) = FixedCurrentCell
    /\ LinesOfRow(w[r].removed_patterns, 1) = <<A>>
    /\ iloc(df[1], proposed_changes_col) = B

\* C18: Determinism.  Two runs started on equal data frames with equal old
\* files remove the same pattern entries and the same comment entries, in the
\* same order, change the same rows and have the same outcome of the
\* reconciliation.
C18_Determinism ==
  \A r1, r2 \in Runs :
    (/\ LoopDone(r1) /\ LoopDone(r2)
     /\ w[r1].df0 = w[r2].df0
     /\ w[r1].old_df = w[r2].old_df)
    => /\ w[r1].removed_patterns = w[r2].removed_patterns
       /\ w[r1].removed_comments = w[r2].removed_comments
       /\ w[r1].changed = w[r2].changed
       /\ w[r1].changes_made = w[r2].changes_made

\* C19: Prior snapshot and index are read-only.  No step of a run writes the
\* file at the old path, the old rows a run has read and converted stay as
\* they are, and once the index is built (the step that validates builds it)
\* no step adds, removes or alters an entry of it.
C19_PriorReadOnly ==
  [][/\ w' # w => PriorFile' = PriorFile
     /\ \A r \in Runs :
          /\ w[r].pc # "validate" => w'[r].old_patterns_map = w[r].old_patterns_map
          /\ w[r].pc \notin {"read_old", "validate"} => w'[r].old_df = w[r].old_df]_vars

\* C20: Last-write-wins in the snapshot index.  The index has an entry for
\* every object id of the old rows and for no other id, every entry carries a
\* patterns set and a comments set, and both are those of the last old row of
\* the id.
C20_LastWriteWins ==
  \A r \in Runs :
    Latest(r) =>
      LET rows == w[r].old_df.rows
          m == w[r].old_patterns_map
      IN  /\ DOMAIN m = {str(iloc(rows[i], object_id_col)) : i \in 1..Len(rows)}
          /\ \A id \in DOMAIN m :
               LET last == rows[Last(RowsWithId(rows, id))] IN
               /\ DOMAIN m[id] = {"patterns", "comments"}
               /\ m[id]["patterns"] = Range(PatternLines(last))
               /\ m[id]["comments"] = Range(CommentLines(last, w[r].comment_col))

\* two old rows of one id, the earlier one with a pattern line and a comment
\* line that the entry of the id, built from the later one, does not hold
C20_Witness ==
  \E r \in Runs :
    /\ Latest(r)
    /\ \E i, j \in 1..Len(w[r].old_df.rows) :
         LET rows == w[r].old_df.rows
             id == str(iloc(rows[i], object_id_col))
         IN  /\ i < j
             /\ j = Last(RowsWithId(rows, id))
             /\ Range(PatternLines(rows[i])) \ w[r].old_patterns_map[id]["patterns"] # {}
             /\ Range(CommentLines(rows[i], w[r].comment_col))
                  \ w[r].old_patterns_map[id]["comments"] # {}

\* the positions in run r's queue of its terminal messages
Terminals(r) == {i \in 1..Len(sent[r]) : sent[r][i].type \in {"result", "error"}}

\* a run has put a terminal message exactly when it has ended, it has put one
\* only, and that one is the last message of its queue
OneTerminal(r) ==
  /\ Cardinality(Terminals(r)) <= 1
  /\ \A i \in Terminals(r) : i = Len(sent[r])
  /\ (w[r].pc = "done") <=> (Terminals(r) # {})

\* a step leaves a running run running or ends it, only adds to its queue, and
\* neither changes an ended run nor adds to its queue
NotInterrupted(r) ==
  /\ Running(r) => (Running(r)' \/ w'[r].pc = "done")
  /\ Len(sent'[r]) >= Len(sent[r])
  /\ SubSeq(sent'[r], 1, Len(sent[r])) = sent[r]
  /\ w[r].pc = "done" => (w'[r] = w[r] /\ sent'[r] = sent[r])

\* C21: Run-to-completion.  No step cancels a started run: a run stays in
\* progress until it ends, and again and again no run is in progress, so that
\* every started run ends; an ended run has put exactly one terminal message
\* ('result' or 'error'), as the last message of its queue, a run in progress
\* has put none, and nothing is put after the terminal one.
C21_RunToCompletion ==
  /\ [](\A r \in Runs : OneTerminal(r))
  /\ [][\A r \in Runs : NotInterrupted(r)]_vars
  /\ []<>(\A r \in Runs : ~Running(r))

\* a run that ended with a result after its save, and after it a run that
\* found nothing to remove and ended with the result of that
C21_Witness ==
  \E r1, r2 \in Runs :
    /\ r1 < r2
    /\ w[r1].pc = "done" /\ w[r1].saved /\ LastMsg(r1).type = "result"
    /\ w[r2].pc = "done" /\ NoChangesOutcome(r2)

\* the lines of `lines` of which no removal entry of row k holds the text
Survivors(lines, removed, k) ==
  LET gone == Range(LinesOfRow(removed, k))
      Kept(l) == l \notin gone
  IN  SelectSeq(lines, Kept)

\* field `col` of reconciled row k of run r: when entries of the row are in the
\* removed list, the cell is a text, the surviving lines joined by newline;
\* when none is, the cell is the value it was
Rewritten(r, k, col, removed) ==
  LET cell0 == iloc(w[r].df0[k], col)
      cell == iloc(df[k], col)
  IN  IF LinesOfRow(removed, k) # <<>>
      THEN /\ ~isna(cell)
           /\ cell = join(Survivors(ExtractLines(cell0), removed, k), NL)
      ELSE cell = cell0

\* C22: In-memory cell rewriting.  A pattern (comment) cell of the data frame
\* is overwritten iff a line was removed from it; it then holds the surviving
\* lines joined by newline, the empty text and not a blank cell when no line
\* survives; a cell from which nothing was removed holds its original value,
\* untrimmed and blank lines included.
C22_CellRewriting ==
  \A r \in Runs :
    Latest(r) =>
      \A k \in Reconciled(r) :
        /\ Rewritten(r, k, proposed_changes_col, w[r].removed_patterns)
        /\ Rewritten(r, k, w[r].comment_col, w[r].removed_comments)

\* a run after which a comment cell that held a line is the empty text and an
\* untrimmed pattern cell with a blank line is what it was
C22_Witness ==
  \E r \in Runs :
    /\ LoopDone(r) /\ started = r
    /\ \E k \in 1..Len(df) :
         /\ iloc(df[k], w[r].comment_col) = <<>>
         /\ CommentLines(w[r].df0[k], w[r].comment_col) # <<>>
    /\ \E k \in 1..Len(df) :
         LET cell == iloc(df[k], proposed_changes_col) IN
         /\ cell = iloc(w[r].df0[k], proposed_changes_col)
         /\ ~isna(cell)
         /\ cell # join(ExtractLines(cell), NL)

\* how many times the sequence `lines` holds the line l
Count(lines, l) == Cardinality({i \in 1..Len(lines) : lines[i] = l})

\* field `col` of reconciled row k of run r: every line the cell held is, as
\* many times as the cell held it, either among the lines the cell holds now or
\* among the removal entries of the row, and never among both
Conserved(r, k, col, removed) ==
  LET before == ExtractLines(iloc(w[r].df0[k], col))
      after == ExtractLines(iloc(df[k], col))
      gone == LinesOfRow(removed, k)
  IN  /\ Len(after) + Len(gone) = Len(before)
      /\ \A l \in Range(before) :
           \/ Count(after, l) = Count(before, l) /\ Count(gone, l) = 0
           \/ Count(gone, l) = Count(before, l) /\ Count(after, l) = 0
      /\ Range(after) \cup Range(gone) \subseteq Range(before)

\* C23: Conservation of lines.  For every row and each field the number of
\* surviving lines plus the number of removal entries of the row and field is
\* the number of trimmed non-empty lines the cell held; the occurrences of a
\* line a cell holds more than once are all removed or all kept, and those
\* kept are kept as many times as the cell held the line.
C23_Conservation ==
  \A r \in Runs :
    Latest(r) =>
      \A k \in Reconciled(r) :
        /\ Conserved(r, k, proposed_changes_col, w[r].removed_patterns)
        /\ Conserved(r, k, w[r].comment_col, w[r].removed_comments)

\* a pattern cell that held a line twice and another line once: the other
\* line was removed and the cell still holds the first line twice
C23_Witness ==
  \E r \in Runs :
    /\ LoopDone(r) /\ started = r
    /\ \E k \in 1..Len(df) :
         LET before == PatternLines(w[r].df0[k])
             after == PatternLines(df[k])
         IN  /\ Len(before) = 3 /\ before[1] = before[2]
             /\ after = <<before[1], before[1]>>
             /\ LinesOfRow(w[r].removed_patterns, k) = <<before[3]>>

\* the lines the old rows of object id `id` hold in column `col`
PriorLines(rows, id, col) ==
  UNION {Range(ExtractLines(iloc(rows[i], col))) : i \in RowsWithId(rows, id)}

\* field `col` of reconciled row k of run r, whose prior set is that of `key`
\* (that of the other field is that of `other`): a line is removed only
\* if the old rows of the id hold it in column `col`, and a line of the cell
\* that is in the prior set of the other field and not in that of this field
\* is a line of the cell still
OwnFieldOnly(r, k, col, removed, key, other) ==
  LET id == str(iloc(w[r].df0[k], object_id_col))
      m == w[r].old_patterns_map
      gone == Range(LinesOfRow(removed, k))
  IN  /\ gone \subseteq PriorLines(w[r].old_df.rows, id, col)
      /\ gone # {} => (id \in DOMAIN m /\ gone \subseteq m[id][key])
      /\ id \in DOMAIN m =>
           \A l \in Range(ExtractLines(iloc(w[r].df0[k], col))) :
             (l \in m[id][other] /\ l \notin m[id][key]) =>
               /\ l \notin gone
               /\ l \in Range(ExtractLines(iloc(df[k], col)))

\* C24: No cross-field removal.  A pattern line is removed only because it is
\* in the prior pattern set of the object id of its row, and a comment line
\* only because it is in the prior comment set; a text that is in the prior
\* comments and not in the prior patterns of the id removes no pattern line,
\* and a text that is in the prior patterns only removes no comment line.
C24_NoCrossField ==
  \A r \in Runs :
    Latest(r) =>
      \A k \in Reconciled(r) :
        /\ OwnFieldOnly(r, k, proposed_changes_col, w[r].removed_patterns,
                        "patterns", "comments")
        /\ OwnFieldOnly(r, k, w[r].comment_col, w[r].removed_comments,
                        "comments", "patterns")

\* a row that lost a pattern line and a comment line, and keeps a pattern line
\* that is a prior comment of its id and a comment line that is a prior pattern
C24_Witness ==
  \E r \in Runs :
    /\ LoopDone(r) /\ started = r
    /\ \E k \in 1..Len(df) :
         LET id == str(iloc(df[k], object_id_col))
             m == w[r].old_patterns_map
         IN  /\ id \in DOMAIN m
             /\ LinesOfRow(w[r].removed_patterns, k) # <<>>
             /\ LinesOfRow(w[r].removed_comments, k) # <<>>
             /\ Range(PatternLines(df[k])) \cap (m[id]["comments"] \ m[id]["patterns"]) # {}
             /\ Range(CommentLines(df[k], w[r].comment_col))
                  \cap (m[id]["patterns"] \ m[id]["comments"]) # {}

\* the positions in run r's queue of its messages of one type
Positions(r, type) == {i \in 1..Len(sent[r]) : sent[r][i].type = type}

\* the queue of run r: one 'max' at most, which carries the number of rows of
\* the data frame; every 'progress' after it; the n-th 'progress' carries n;
\* no more of them than rows, and one per row once the loop has ended; the
\* terminal message after every 'progress'
OrderedQueue(r) ==
  LET max == Positions(r, "max")
      progress == Positions(r, "progress")
  IN  /\ Cardinality(max) <= 1
      /\ \A i \in max : sent[r][i].data = Len(w[r].df0)
      /\ progress # {} => max # {}
      /\ \A i \in max, j \in progress : i < j
      /\ \A j \in progress :
           sent[r][j].data = Cardinality({i \in progress : i <= j})
      /\ Cardinality(progress) <= Len(w[r].df0)
      /\ LoopDone(r) => Cardinality(progress) = Len(w[r].df0)
      /\ \A j \in progress, t \in Terminals(r) : j < t

\* a step of the monitor of run r handles no message or the one message that
\* follows the last one it handled: a 'max' sets the maximum of the progress
\* bar, a 'progress' its value, a terminal message ends the polling
HandledInOrder(r) ==
  /\ nread'[r] \in {nread[r], nread[r] + 1}
  /\ nread'[r] <= Len(sent[r])
  /\ nread'[r] = nread[r] + 1 =>
       LET m == sent[r][nread'[r]] IN
       /\ m.type = "max" => removal_progress'.maximum = m.data
       /\ m.type = "progress" => removal_progress'.value = m.data
       /\ m.type = "status" => status_var' = <<m.data>>
       /\ (m.type \in {"result", "error"}) <=> (mon'[r] = "done")

\* C25: Progress message ordering.  In every run the 'max' message (the number
\* of rows N) is put before any 'progress' message, the 'progress' values are
\* 1, 2, ..., N in this order, one per row, every 'progress' precedes the
\* terminal message, and the monitor handles the messages in the order they
\* were put, at most one per poll.
C25_ProgressOrdering ==
  /\ [](\A r \in Runs : OrderedQueue(r))
  /\ [][\A r \in Runs : HandledInOrder(r)]_vars

\* the monitor of a run over two rows has handled every message of the run,
\* the last 'progress' before the result, and shows the progress bar at 2 of 2
C25_Witness ==
  \E r \in Runs :
    /\ mon[r] = "done" /\ started = r
    /\ nread[r] = Len(sent[r])
    /\ LastMsg(r).type = "result"
    /\ Cardinality(Positions(r, "progress")) = 2
    /\ removal_progress = [maximum |-> 2, value |-> 2]

\* run r ended with an 'error' message
EndedInError(r) == w[r].pc = "done" /\ LastMsg(r).type = "error"

\* C26: State unchanged on error.  When a run has ended with an 'error'
\* message, every pattern cell and every comment cell of the data frame holds
\* what it held when the run started, and so holds what the persisted
\* workbook holds for it.
C26_UnchangedOnError ==
  \A r \in Runs :
    (started = r /\ EndedInError(r)) =>
      \A k \in 1..Len(df) :
        /\ iloc(df[k], proposed_changes_col) = iloc(w[r].df0[k], proposed_changes_col)
        /\ HasColumn(dfColumns, comment_col_name) =>
             iloc(df[k], get_loc(dfColumns, comment_col_name))
               = iloc(w[r].df0[k], get_loc(dfColumns, comment_col_name))


-----------------------------------------------------------------------------
(* The Compair Tool                                                         *)

\* The comparison: the user selects the two workbooks and types a sheet name
\* in any order, then compares, any number of times.
InitCompare == InitWith(SmallCurrentFiles, {<<>>})

BeforeVerdict == compairTool.status_var = <<"Ready">>

NextCompare ==
  \/ BeforeVerdict /\ browse_file1
  \/ BeforeVerdict /\ browse_file2
  \/ BeforeVerdict /\ type_sheet_entry
  \/ compare_files

SpecCompare == InitCompare /\ [][NextCompare]_vars

\* the string form of the cell of a sheet at row position i (from 0) and
\* column c, blank where the sheet has no such row or column
CellText(book, i, c) ==
  IF i < Len(book.rows) /\ HasColumn(book.columns, c)
  THEN LET v == book.rows[i + 1][get_loc(book.columns, c) + 1]
       IN  IF pd_isna(v) THEN "" ELSE str(v)
  ELSE ""

SheetsAgree(b1, b2) ==
  \A i \in 0..(Max(Len(b1.rows), Len(b2.rows)) - 1) :
    \A c \in Range(b1.columns) \cup Range(b2.columns) :
      CellText(b1, i, c) = CellText(b2, i, c)

\* the entries of every row position and column at which the two sheets
\* differ, in row-major order, from the p-th pair (row position, column) on
RECURSIVE EntriesFrom(_, _, _, _)
EntriesFrom(b1, b2, columns, p) ==
  LET m == Len(columns)
      i == p \div m
      c == columns[(p % m) + 1]
  IN  IF m = 0 \/ p >= Max(Len(b1.rows), Len(b2.rows)) * m THEN <<>>
      ELSE (IF CellText(b1, i, c) # CellText(b2, i, c)
            THEN <<[Row |-> i + 2, Column |-> c,
                    Value_in_File_1 |-> CellText(b1, i, c),
                    Value_in_File_2 |-> CellText(b2, i, c)]>>
            ELSE <<>>)
           \o EntriesFrom(b1, b2, columns, p + 1)

\* C27 (Comparison verdict): after a comparison that ended with a verdict,
\* 'No differences found' is the status only if the two sheets compared agree
\* in every cell, the rows that only one of them has included, and the
\* differences found are one entry (Row i+2, column, value 1, value 2) for
\* every row position i and column at which the string forms of the two
\* values differ, in row-major order.
C27_ComparisonVerdict ==
  LET b1 == compairTool.file1_entry
      b2 == compairTool.file2_entry
      verdict == compairTool.status_var[1]
  IN  /\ verdict = "No differences found" => SheetsAgree(b1, b2)
      /\ verdict \in {"No differences found", "Found"} =>
            compairTool.results_table
              = EntriesFrom(b1, b2, align_columns(b1, b2), 0)

-----------------------------------------------------------------------------
(* The pattern dialog                                                       *)

\* the configuration files a start of the tool may find before the dialog is
\* opened
DialogConfigFiles ==
  {NoConfigFile,
   ConfigFile([last_entries |->
                 [cdrl_name |-> <<"c">>, contractor_status |-> <<"S", "A", "T">>]])}

\* The dialog: it is opened for an object identifier, and the user types,
\* generates, adds the 180-WLR version and resets in any order.
InitDialog ==
  /\ InitRemovalTool(SmallCurrentFiles, {<<>>})
  /\ compairTool = NewCompairTool
  /\ disagreementManager = ClosedDisagreementManager(<<>>)
  /\ \E file \in DialogConfigFiles : config = Config(file, TRUE)
  /\ \E obj_identifier \in ObjIdentifiers :
       patternDialog = NewPatternDialog(obj_identifier, config)

NextDialog ==
  \/ type_entries
  \/ generate_pattern
  \/ create_180_version
  \/ reset_fields

SpecDialog == InitDialog /\ [][NextDialog]_vars

\* a pattern of generate_vessel_specific_pattern
IsVesselPattern(pattern) ==
  Len(pattern) >= 4 /\ SubSeq(pattern, 1, 4) = <<"A", "D", "D", ";">>

\* C28 (Pattern dialog ordering): a 180-WLR pattern is in the list of the
\* dialog only behind the initial pattern, which the dialog still holds as
\* the first of the list, and the displayed output is the list of the
\* patterns joined by newline.
C28_PatternOrdering ==
  LET d == patternDialog IN
  /\ \A k \in 1..Len(d.patterns) :
        IsVesselPattern(d.patterns[k]) =>
          /\ k > 1
          /\ d.has_pattern1
          /\ d.patterns[1] = d.pattern1
          /\ ~IsVesselPattern(d.pattern1)
  /\ d.output_text = join(d.patterns, NL)

-----------------------------------------------------------------------------
(* The Disagreement Manager                                                 *)

\* The reports: the main window holds the status items of the loaded file
\* (none when no file is loaded), the manager is opened, and every click on
\* 'Create Disagreement Reports' that gets through starts a thread; the user
\* clicks again only after the previous thread has ended.
InitReports ==
  /\ InitRemovalTool(SmallCurrentFiles, {<<>>})
  /\ compairTool = NewCompairTool
  /\ patternDialog = NewPatternDialog(<<>>, NewConfig)
  /\ config = NewConfig
  /\ \E status_data \in SeqsUpTo(StatusChoices, MaxStatusRows) :
       /\ excel_file_path = "" => status_data = <<>>
       /\ disagreementManager = ClosedDisagreementManager(status_data)

ClickReportsWhenIdle ==
  /\ \A t \in 1..Len(disagreementManager.threads) :
        disagreementManager.threads[t].pc = "done"
  /\ create_disagreement_reports

NextReports ==
  \/ create_window
  \/ ClickReportsWhenIdle
  \/ \E t \in 1..MaxReportRuns : create_reports_thread(t)

SpecReports == InitReports /\ [][NextReports]_vars

\* a text, trimmed and compared without regard to case
Normal(text) == lower(strip(text))

\* the status rows with the Government Assessed Status 'disagree' and the
\* Object Status 'accepted'
SelectedRows ==
  LET data == disagreementManager.status_data IN
  {j \in 1..Len(data) :
     /\ Normal(data[j].government_status) = <<"d", "i", "s", "a", "g", "r", "e", "e">>
     /\ Normal(data[j].object_status) = <<"a", "c", "c", "e", "p", "t", "e", "d">>}

\* the rows among `selected` of a VeriDoc number
RowsOf(selected, veridoc) ==
  {j \in selected :
     Normal(disagreementManager.status_data[j].veridoc_number) = veridoc}

\* the distinct non-empty VeriDoc numbers of the rows `selected`
VeriDocs(selected) ==
  {Normal(disagreementManager.status_data[j].veridoc_number) : j \in selected}
    \ {<<>>}

\* C29 (Disagreement selection and grouping): once the manager is open its
\* items are exactly the selected status rows, in data order; a report
\* creation skips no group and attempts a report at most once per VeriDoc
\* number, only for the distinct non-empty VeriDoc numbers of the selected
\* rows and with the first row of the number in data order, and when it has
\* ended every such number has had its attempt.
C29_SelectionAndGrouping ==
  LET m == disagreementManager
      selected == SelectedRows
      veridocs == VeriDocs(selected)
  IN  /\ m.window = "open" =>
            /\ Range(m.disagreement_items) = selected
            /\ \A a, b \in 1..Len(m.disagreement_items) :
                  a < b => m.disagreement_items[a] < m.disagreement_items[b]
      /\ \A t \in 1..Len(m.threads) :
            LET events == m.threads[t].events IN
            /\ \A a \in 1..Len(events) :
                  LET rows == RowsOf(selected, events[a].veridoc) IN
                  /\ events[a].type = "attempt"
                  /\ events[a].veridoc \in veridocs
                  /\ events[a].item \in rows
                  /\ \A j \in rows : events[a].item <= j
                  /\ \A b \in 1..Len(events) :
                        events[b].veridoc = events[a].veridoc => a = b
            /\ m.threads[t].pc = "done" =>
                  {events[a].veridoc : a \in 1..Len(events)} = veridocs

\* C29 witness: a report creation has ended after two attempts, one of them
\* failed, one of them for a group of two rows whose VeriDoc numbers differ
\* in case and blanks.
C29_Witness ==
  LET m == disagreementManager IN
  \E t \in 1..Len(m.threads) :
    /\ m.threads[t].pc = "done"
    /\ Len(m.threads[t].events) = 2
    /\ \E a \in 1..2 : m.threads[t].events[a].result = "None"
    /\ \E a \in 1..2 : m.threads[t].events[a].result = "created"
    /\ \E j, k \in SelectedRows :
         /\ j # k
         /\ m.status_data[j].veridoc_number # m.status_data[k].veridoc_number
         /\ Normal(m.status_data[j].veridoc_number)
              = Normal(m.status_data[k].veridoc_number)

-----------------------------------------------------------------------------
(* The configuration                                                        *)

\* The configuration: the module is imported on one of the files a start may
\* find, then values are set and the file is loaded again, in any order.
InitConfig ==
  /\ InitRemovalTool(SmallCurrentFiles, {<<>>})
  /\ compairTool = NewCompairTool
  /\ patternDialog = NewPatternDialog(<<>>, NewConfig)
  /\ disagreementManager = ClosedDisagreementManager(<<>>)
  /\ \E file \in ConfigFiles, written \in BOOLEAN : config = Config(file, written)

NextConfig ==
  \/ config_set
  \/ config_load

SpecConfig == InitConfig /\ [][NextConfig]_vars

\* C30 (Config settings are a copy of the defaults): DEFAULT_CONFIG, the
\* dicts of its sections included, holds what the module wrote into it,
\* get returns the value set last for a section and key, and get returns
\* the default it is given when the section or the key is absent.
C30_SettingsAreACopy ==
  /\ DefaultsNow(config) = DEFAULT_CONFIG
  /\ \A sk \in DOMAIN config.last_set :
        get(config, sk[1], sk[2], "fallback") = config.last_set[sk]
  /\ \A section \in ConfigSections \cup {"paths"}, key \in ConfigKeys :
        (\/ section \notin DOMAIN config.settings
         \/ key \notin DOMAIN config.heap[config.settings[section]])
          => get(config, section, key, "fallback") = "fallback"

=============================================================================
